---- MODULE Spec2Model ----
(***************************************************************************)
(* A model of sipmanalyze: the bound management of the likelihood fit      *)
(* (set_bounds, run_iterative_pdf_fit), the legacy text parsers of the     *)
(* standard and the waveform container, and the batch loop of the two      *)
(* conversion scripts, the response parameters of fit.py, the peak and the *)
(* gaussian estimates of estimate/lowlight.py, the cluster set-up of       *)
(* condor/lpc.py, the histogram of formats/histogram_output.py and the     *)
(* number format of plotting.py.                                           *)
(*                                                                         *)
(* Each routine has its own variables, its own initial predicate and its   *)
(* own specification; while one routine is looked at the others are idle.  *)
(*                                                                         *)
(* The real numbers of the fit are fixed point: one unit is 1e-5, so the   *)
(* proximity tolerance 10e-4 of run_iterative_pdf_fit is 100 units.        *)
(***************************************************************************)
EXTENDS Integers, Sequences, FiniteSets, TLC

VARIABLES
  \* run_iterative_pdf_fit (estimate.py)
  fpc,               \* position: "start", "minimize", "check", "done", "raised"
  max_iterations,    \* the argument: [isint, val]
  message,           \* the argument message
  limits_entry,      \* limits_dict as it was passed in
  limits_dict,       \* limits_dict, modified in place
  i,                 \* the loop index
  run_fitting,
  at_logical_limit,  \* a list of names
  result,            \* the last minimisation: name -> [value, error, at_limit]
  nfits,             \* the number of minimisations run so far
  fit_bounds,        \* the bounds the last minimisation ran under
  trig,              \* the <<name, side>> that set run_fitting in the last round
  printed,           \* the names the messages printed: [not_converged, logical]
  ferr,              \* the exception raised, if any
  \* set_bounds (fit.py, estimate.py)
  sbpc,              \* position: "call", "returned", "raised"
  variable_estimates,\* the argument: key -> [present, value]
  sb_config,         \* the argument limits_dict as it was passed in
  sb_limits,         \* limits_dict, modified in place
  sberr,             \* the exception raised, if any
  \* standard_container.from_txt (formats/standard.py)
  stdpc,             \* position: "call", "returned", "raised"
  std_file,          \* the text file: a sequence of rows of numbers
  std_out,           \* what from_txt gave: [exc, names_file, data]
  \* waveform_container.from_txt (formats/waveform.py)
  wpc,               \* position: "call", "returned", "raised"
  wave_file,         \* the text file: [settings_line, events]
  wave_out,          \* what from_txt gave: [exc, names_file, has_settings,
                     \*   settings, decoded, waveforms]
  \* the conversion scripts (scripts/convert)
  script,            \* "waveform" or "lumi"
  input,             \* args.input: a list of files [path, kind]
  cidx,              \* the number of files the loop has been through
  log,               \* the lines printed
  saved,             \* the files written: [path, fields]
  propagated,        \* an exception left the loop
  \* create_response_pdf_data, update_response_parameter_bounds (fit.py)
  rpc,               \* position: "call", "created", "updated", "raised"
  parameters,        \* the argument: name -> [kind, v]
  routine_name,      \* the argument routine_name
  minuit,            \* result.info["minuit"]: a list of [name, value, error]
  relative_range,    \* the argument, in tenths
  fit_uncer_range,   \* the argument, in tenths
  resp_out,          \* what the call gave: [exc, var, params, pdf, dict]
  \* estimate_gauss_param (estimate/lowlight.py)
  gpc,               \* position: "call", "loop", "returned", "raised"
  g_nbins,           \* len(x_axis)
  g_bin_width,       \* x_axis.widths[0]
  peak_positions,    \* the argument
  fit_bin_count,     \* the argument: [isint, val]
  peak_bin_numbers,  \* the bin of each peak position
  gidx,              \* the number of peaks the loop has been through
  windows,           \* the bins passed to each fit: [peak_id, peak_bin, bins]
  fits,              \* what each fit gave: [peak_id, peak_cen, norm, x0, sig]
  return_dict,       \* the records kept: [peak_id, mu, sigma, norm, xrange]
  gerr,              \* the exception raised, if any
  \* estimate_peaks (estimate/lowlight.py)
  ppc,               \* position: "call", "returned", "raised"
  h_data,            \* the histogram: the entries of its bins
  p_bin_width,       \* h_data.axes[0].widths[0]
  min_gain,          \* the argument
  min_ratio,         \* the argument, in hundredths
  peaks_out,         \* the peak positions returned
  perr,              \* the exception raised, if any
  \* make_lpc_cluster_client (condor/lpc.py)
  lpc_pc,            \* position: "call", "get_port", "set_default_proxy",
                     \*   "transfer_input_files", "raised"
  ports_in_use,      \* the ports of localhost that accept a connection
  job_extra_directives, \* kwargs["job_extra_directives"]
  home,              \* os.environ["HOME"]
  uid,               \* os.getuid(), as text
  files,             \* the paths that are files
  jobs,              \* the argument jobs
  port_probes,       \* the ports __get_port has tried, in order
  port,              \* the port __get_port returned
  proxyfile,         \* the proxy file set_default_proxy resolved
  cluster,           \* the cluster and client made: [made, client, scaled]
  lerr,              \* the exception raised: [exc, names]
  \* from_waveform (formats/histogram_output.py)
  hpc,               \* position: "call", "axis", "returned", "raised"
  h_waveforms,       \* container.waveforms: the samples of each event
  start,             \* the argument start
  stop,              \* the argument stop
  timeintervals,     \* container.settings.timeintervals
  adc_val,           \* container.settings.adc_val
  invert,            \* the argument invert
  bin_group,         \* the argument bin_group
  area,              \* the converted integral of each event
  nbins,             \* the number of bins computed
  hist_out,          \* the histogram: [made, bins, lo, hi, counts, overflow]
  herr,              \* the exception raised, if any
  \* number_str (plotting.py)
  npc,               \* position: "call", "returned"
  central,           \* the argument central
  unc_args,          \* the arguments unc and *args, in order
  nsig,              \* the argument nsig
  align_str,         \* the argument align_str
  scientific,        \* the argument scientific
  num_out            \* what the call gave: [tokens, str]

fitVars == <<fpc, max_iterations, message, limits_entry, limits_dict, i,
             run_fitting, at_logical_limit, result, nfits, fit_bounds, trig,
             printed, ferr>>
sbVars == <<sbpc, variable_estimates, sb_config, sb_limits, sberr>>
stdVars == <<stdpc, std_file, std_out>>
waveVars == <<wpc, wave_file, wave_out>>
convVars == <<script, input, cidx, log, saved, propagated>>
respVars == <<rpc, parameters, routine_name, minuit, relative_range,
              fit_uncer_range, resp_out>>

oldVars == <<fitVars, sbVars, stdVars, waveVars, convVars>>

\* The variables of the routines of fit.py, estimate/lowlight.py,
\* condor/lpc.py and formats/histogram_output.py
gaussVars == <<gpc, g_nbins, g_bin_width, peak_positions, fit_bin_count,
               peak_bin_numbers, gidx, windows, fits, return_dict, gerr>>
peakVars == <<ppc, h_data, p_bin_width, min_gain, min_ratio, peaks_out, perr>>
lpcVars == <<lpc_pc, ports_in_use, job_extra_directives, home, uid, files,
             jobs, port_probes, port, proxyfile, cluster, lerr>>
histVars == <<hpc, h_waveforms, start, stop, timeintervals, adc_val, invert,
              bin_group, area, nbins, hist_out, herr>>
numVars == <<npc, central, unc_args, nsig, align_str, scientific, num_out>>
moreVars == <<respVars, gaussVars, peakVars, lpcVars, histVars, numVars>>

vars == <<fitVars, sbVars, stdVars, waveVars, convVars, moreVars>>

-----------------------------------------------------------------------------
(* Bounds of the model *)

MaxIter == 3          \* the largest max_iterations tried
MaxRows == 2          \* the most rows of a standard text file
MaxCols == 10         \* the most columns of a standard text file
MaxTokens == 6        \* the most tokens on the settings line of a waveform file
MaxFiles == 3         \* the most input files of a conversion script
MaxBins == 8          \* the most bins of a histogram
MaxPeaks == 2         \* the most peak positions passed to estimate_gauss_param
MaxFitBins == 3       \* the largest fit_bin_count tried
MaxHistBins == 7      \* the most bins of a histogram passed to estimate_peaks
MaxEvents == 2        \* the most events of a waveform container
MaxUncs == 2          \* the most uncertainties passed to number_str

-----------------------------------------------------------------------------
(* Helpers *)

Max(a, b) == IF a >= b THEN a ELSE b
Min(a, b) == IF a <= b THEN a ELSE b

NoError == [kind |-> "none", key |-> "none"]

Range(s) == {s[k] : k \in DOMAIN s}

-----------------------------------------------------------------------------
(* run_iterative_pdf_fit                                                   *)

\* The fit parameters, in the iteration order of the parameters dictionary.
ParamOrder == <<"pedestal", "gain">>
Params == Range(ParamOrder)

\* One entry of limits_dict. present: the key is in the dictionary; has_bounds:
\* the entry holds "lower_bound" and "upper_bound" (set_bounds has filled it).
LimitsEntry(present, has_width, width, lmax, umax, lb, ub) ==
  [present |-> present, has_width |-> has_width, width |-> width,
   has_lower_max |-> lmax.has, lower_max |-> lmax.v,
   has_upper_max |-> umax.has, upper_max |-> umax.v,
   has_bounds |-> present, lower_bound |-> lb, upper_bound |-> ub]

\* An entry as the user writes it, before set_bounds: no bounds yet.
ConfigEntry(present, has_width, width, lmax, umax) ==
  [LimitsEntry(present, has_width, width, lmax, umax, 0, 0)
     EXCEPT !.has_bounds = FALSE]

NoMax == [has |-> FALSE, v |-> 0]
SomeMax(v) == [has |-> TRUE, v |-> v]

\* 10e-4, the proximity tolerance of the error band to a bound
Tol == 100

upper_error(r) == r.value + r.error
lower_error(r) == r.value - r.error

\* ValidateFrom without the check of lower_bound against upper_bound
RECURSIVE ValidateFrom_NoBoundsCheck(_, _)
ValidateFrom_NoBoundsCheck(k, ld) ==
  IF k > Len(ParamOrder) THEN NoError
  ELSE LET key == ParamOrder[k] IN
       IF ~ld[key].present THEN [kind |-> "not in limits_dict", key |-> key]
       ELSE IF ~ld[key].has_width THEN [kind |-> "width not set", key |-> key]
       ELSE IF ld[key].width <= 0 THEN [kind |-> "width <= 0", key |-> key]
       ELSE IF ~ld[key].has_bounds THEN [kind |-> "KeyError", key |-> key]
       ELSE ValidateFrom_NoBoundsCheck(k + 1, ld)

\* estimate.py 311-321: the exception the checks raise, or NoError
RECURSIVE ValidateFrom(_, _)
ValidateFrom(k, ld) ==
  IF k > Len(ParamOrder) THEN NoError
  ELSE LET key == ParamOrder[k] IN
       IF ~ld[key].present THEN [kind |-> "not in limits_dict", key |-> key]
       ELSE IF ~ld[key].has_width THEN [kind |-> "width not set", key |-> key]
       ELSE IF ld[key].width <= 0 THEN [kind |-> "width <= 0", key |-> key]
       ELSE IF ~ld[key].has_bounds THEN [kind |-> "KeyError", key |-> key]
       ELSE IF ld[key].lower_bound > ld[key].upper_bound
            THEN [kind |-> "illogical bounds", key |-> key]
       ELSE ValidateFrom(k + 1, ld)

FitInputError(mi, ld) ==
  IF mi.val <= 0 \/ ~mi.isint
  THEN [kind |-> "max_iterations", key |-> "none"]
  ELSE ValidateFrom(1, ld)

\* CheckUpper widening by a full width whatever upper_max is
CheckUpper_NoClip(e, r) ==
  IF e.upper_bound - upper_error(r) <= Tol
  THEN LET test_upper_limit == e.upper_bound + e.width IN
       IF ~e.has_upper_max
       THEN [bound |-> test_upper_limit, run |-> TRUE, flag |-> FALSE]
       ELSE IF upper_error(r) < e.upper_max
            THEN [bound |-> test_upper_limit, run |-> TRUE, flag |-> FALSE]
            ELSE [bound |-> e.upper_bound, run |-> FALSE, flag |-> TRUE]
  ELSE [bound |-> e.upper_bound, run |-> FALSE, flag |-> FALSE]

\* CheckUpper widening a bound without asking for another fit
CheckUpper_SilentWiden(e, r) ==
  IF e.upper_bound - upper_error(r) <= Tol
  THEN LET test_upper_limit == e.upper_bound + e.width IN
       IF ~e.has_upper_max
       THEN [bound |-> test_upper_limit, run |-> FALSE, flag |-> FALSE]
       ELSE IF upper_error(r) < e.upper_max
            THEN [bound |-> IF test_upper_limit > e.upper_max
                            THEN e.upper_max ELSE test_upper_limit,
                  run |-> TRUE, flag |-> FALSE]
            ELSE [bound |-> e.upper_bound, run |-> FALSE, flag |-> TRUE]
  ELSE [bound |-> e.upper_bound, run |-> FALSE, flag |-> FALSE]

\* CheckUpper that never flags a parameter
CheckUpper_NoFlag(e, r) ==
  IF e.upper_bound - upper_error(r) <= Tol
  THEN LET test_upper_limit == e.upper_bound + e.width IN
       IF ~e.has_upper_max
       THEN [bound |-> test_upper_limit, run |-> TRUE, flag |-> FALSE]
       ELSE IF upper_error(r) < e.upper_max
            THEN [bound |-> IF test_upper_limit > e.upper_max
                            THEN e.upper_max ELSE test_upper_limit,
                  run |-> TRUE, flag |-> FALSE]
            ELSE [bound |-> e.upper_bound, run |-> FALSE, flag |-> FALSE]
  ELSE [bound |-> e.upper_bound, run |-> FALSE, flag |-> FALSE]

\* estimate.py 363-379: the upper bound of an at-limit parameter
CheckUpper(e, r) ==
  IF e.upper_bound - upper_error(r) <= Tol
  THEN LET test_upper_limit == e.upper_bound + e.width IN
       IF ~e.has_upper_max
       THEN [bound |-> test_upper_limit, run |-> TRUE, flag |-> FALSE]
       ELSE IF upper_error(r) < e.upper_max
            THEN [bound |-> IF test_upper_limit > e.upper_max
                            THEN e.upper_max ELSE test_upper_limit,
                  run |-> TRUE, flag |-> FALSE]
            ELSE [bound |-> e.upper_bound, run |-> FALSE, flag |-> TRUE]
  ELSE [bound |-> e.upper_bound, run |-> FALSE, flag |-> FALSE]

\* CheckLower with the width added to the lower bound
CheckLower_WidthAdded(e, r) ==
  IF lower_error(r) - e.lower_bound <= Tol
  THEN LET test_lower_limit == e.lower_bound + e.width IN
       IF ~e.has_lower_max
       THEN [bound |-> test_lower_limit, run |-> TRUE, flag |-> FALSE]
       ELSE IF lower_error(r) > e.lower_max
            THEN [bound |-> IF test_lower_limit < e.lower_max
                            THEN e.lower_max ELSE test_lower_limit,
                  run |-> TRUE, flag |-> FALSE]
            ELSE [bound |-> e.lower_bound, run |-> FALSE, flag |-> TRUE]
  ELSE [bound |-> e.lower_bound, run |-> FALSE, flag |-> FALSE]

\* estimate.py 382-398: the lower bound of an at-limit parameter
CheckLower(e, r) ==
  IF lower_error(r) - e.lower_bound <= Tol
  THEN LET test_lower_limit == e.lower_bound - e.width IN
       IF ~e.has_lower_max
       THEN [bound |-> test_lower_limit, run |-> TRUE, flag |-> FALSE]
       ELSE IF lower_error(r) > e.lower_max
            THEN [bound |-> IF test_lower_limit < e.lower_max
                            THEN e.lower_max ELSE test_lower_limit,
                  run |-> TRUE, flag |-> FALSE]
            ELSE [bound |-> e.lower_bound, run |-> FALSE, flag |-> TRUE]
  ELSE [bound |-> e.lower_bound, run |-> FALSE, flag |-> FALSE]

\* estimate.py 355-398, for one parameter: acc is the state of the round
CheckParameter(acc, name, res) ==
  IF ~res[name].at_limit THEN acc
  ELSE LET e  == acc.limits[name]
           up == CheckUpper(e, res[name])
           lo == CheckLower(e, res[name])
           l1 == IF up.flag THEN Append(acc.at_logical_limit, name)
                 ELSE acc.at_logical_limit
           l2 == IF lo.flag THEN Append(l1, name) ELSE l1
       IN [limits |-> [acc.limits EXCEPT ![name] =
                         [e EXCEPT !.upper_bound = up.bound,
                                   !.lower_bound = lo.bound]],
           run_fitting |-> acc.run_fitting \/ up.run \/ lo.run,
           at_logical_limit |-> l2,
           trig |-> acc.trig
                    \cup (IF up.run THEN {<<name, "upper">>} ELSE {})
                    \cup (IF lo.run THEN {<<name, "lower">>} ELSE {})]

RECURSIVE CheckParametersFrom(_, _, _)
CheckParametersFrom(k, acc, res) ==
  IF k > Len(ParamOrder) THEN acc
  ELSE CheckParametersFrom(k + 1, CheckParameter(acc, ParamOrder[k], res), res)

\* The 'not converged' message checked against an empty list
NotConvergedFrom_EmptyList(k, res, logical) ==
  SelectSeq(ParamOrder, LAMBDA name : res[name].at_limit)

\* estimate.py 344-349: the names the 'not converged' message prints
RECURSIVE NotConvergedFrom(_, _, _)
NotConvergedFrom(k, res, logical) ==
  IF k > Len(ParamOrder) THEN <<>>
  ELSE LET name == ParamOrder[k] IN
       (IF res[name].at_limit /\ name \notin Range(logical)
        THEN <<name>> ELSE <<>>) \o NotConvergedFrom(k + 1, res, logical)

Bounds(ld) ==
  [n \in Params |-> [lower |-> ld[n].lower_bound, upper |-> ld[n].upper_bound]]

\* What the minimiser may return for a parameter with entry e: the value on the
\* upper bound, 5e-4 below it, outside the tolerance below it, or on the lower
\* bound; the Hessian error zero or wider than the interval; and the
\* at_limit flag of the parameter.
FitOutcomes(e) ==
  {[value |-> v, error |-> 0, at_limit |-> TRUE] :
      v \in {e.upper_bound, e.upper_bound - 50, e.upper_bound - 101,
             e.lower_bound}}
  \cup {[value |-> e.upper_bound, error |-> 400, at_limit |-> TRUE],
        [value |-> e.upper_bound, error |-> 0, at_limit |-> FALSE]}

NoResult == [n \in Params |-> [value |-> 0, error |-> 0, at_limit |-> FALSE]]

\* The entries tried for a parameter: lower_bound 1000, upper_bound 1400, width
\* 300 and the hard limits absent, at the bound, within one width of it, further
\* away, or already crossed by the bound.
ValidEntries ==
  {LimitsEntry(TRUE, TRUE, 300, m[1], m[2], 1000, 1400) :
      m \in {<<NoMax, NoMax>>,
              <<SomeMax(1000), SomeMax(1400)>>,
              <<SomeMax(900), SomeMax(1500)>>,
              <<NoMax, SomeMax(1700)>>,
              <<SomeMax(700), NoMax>>,
              <<NoMax, SomeMax(1360)>>,
              <<SomeMax(1100), NoMax>>}}

FewEntries ==
  {LimitsEntry(TRUE, TRUE, 300, NoMax, NoMax, 1000, 1400),
   LimitsEntry(TRUE, TRUE, 300, SomeMax(1000), SomeMax(1400), 1000, 1400),
   LimitsEntry(TRUE, TRUE, 300, NoMax, SomeMax(1500), 1000, 1400)}

\* Entries the checks of run_iterative_pdf_fit reject: the key missing, no
\* width, a width <= 0, no bounds, lower_bound above upper_bound.
InvalidEntries ==
  {LimitsEntry(FALSE, FALSE, 0, NoMax, NoMax, 0, 0),
   ConfigEntry(TRUE, TRUE, 300, NoMax, NoMax),
   LimitsEntry(TRUE, FALSE, 0, NoMax, NoMax, 1000, 1400),
   LimitsEntry(TRUE, TRUE, 0, NoMax, NoMax, 1000, 1400),
   LimitsEntry(TRUE, TRUE, -300, NoMax, NoMax, 1000, 1400),
   LimitsEntry(TRUE, TRUE, 300, NoMax, SomeMax(1500), 1400, 1000)}

MaxIterationsOpts ==
  {[isint |-> TRUE, val |-> n] : n \in -1 .. MaxIter}
  \cup {[isint |-> FALSE, val |-> 2]}

InitFit ==
  /\ fpc = "start"
  /\ max_iterations \in MaxIterationsOpts
  /\ message \in BOOLEAN
  /\ limits_entry \in
       [Params -> ValidEntries \cup InvalidEntries]
  /\ limits_entry["gain"] \in FewEntries \cup InvalidEntries
  /\ limits_dict = limits_entry
  /\ i = 0
  /\ run_fitting = FALSE
  /\ at_logical_limit = <<>>
  /\ result = NoResult
  /\ nfits = 0
  /\ fit_bounds = Bounds(limits_entry)
  /\ trig = {}
  /\ printed = [not_converged |-> <<>>, logical |-> <<>>]
  /\ ferr = NoError

\* The state of run_iterative_pdf_fit while another routine is looked at.
IdleFit ==
  /\ fpc = "idle"
  /\ max_iterations = [isint |-> TRUE, val |-> 1]
  /\ message = FALSE
  /\ limits_entry = [n \in Params |-> LimitsEntry(FALSE, FALSE, 0, NoMax, NoMax, 0, 0)]
  /\ limits_dict = limits_entry
  /\ i = 0
  /\ run_fitting = FALSE
  /\ at_logical_limit = <<>>
  /\ result = NoResult
  /\ nfits = 0
  /\ fit_bounds = Bounds(limits_entry)
  /\ trig = {}
  /\ printed = [not_converged |-> <<>>, logical |-> <<>>]
  /\ ferr = NoError

\* estimate.py 310-331
Validate ==
  /\ fpc = "start"
  /\ LET err == FitInputError(max_iterations, limits_dict) IN
       IF err # NoError
       THEN /\ fpc' = "raised"
            /\ ferr' = err
       ELSE /\ fpc' = "minimize"
            /\ ferr' = ferr
  /\ i' = 0
  /\ run_fitting' = FALSE
  /\ at_logical_limit' = <<>>
  /\ UNCHANGED <<max_iterations, message, limits_entry, limits_dict, result,
                 nfits, fit_bounds, trig, printed>>
  /\ UNCHANGED <<sbVars, stdVars, waveVars, convVars, moreVars>>

\* estimate.py 333-338
Minimize ==
  /\ fpc = "minimize"
  /\ \E res \in [Params -> UNION {FitOutcomes(limits_dict[n]) : n \in Params}] :
       /\ \A n \in Params : res[n] \in FitOutcomes(limits_dict[n])
       /\ result' = res
  /\ run_fitting' = FALSE
  /\ nfits' = nfits + 1
  /\ fit_bounds' = Bounds(limits_dict)
  /\ fpc' = "check"
  /\ UNCHANGED <<max_iterations, message, limits_entry, limits_dict, i,
                 at_logical_limit, trig, printed, ferr>>
  /\ UNCHANGED <<sbVars, stdVars, waveVars, convVars, moreVars>>

\* estimate.py 405-408: the names the closing message prints
LogicalMessage(logical) == IF message THEN logical ELSE <<>>

\* estimate.py 341-350, 404-410: the last allowed iteration
FinalIteration ==
  /\ fpc = "check"
  /\ i = max_iterations.val - 1
  /\ printed' = [not_converged |->
                   IF message
                   THEN NotConvergedFrom(1, result, at_logical_limit)
                   ELSE <<>>,
                 logical |-> LogicalMessage(at_logical_limit)]
  /\ fpc' = "done"
  /\ UNCHANGED <<max_iterations, message, limits_entry, limits_dict, i,
                 run_fitting, at_logical_limit, result, nfits, fit_bounds,
                 trig, ferr>>
  /\ UNCHANGED <<sbVars, stdVars, waveVars, convVars, moreVars>>

\* WidenRound going on to the next iteration although run_fitting stayed false
WidenRound_NoBreak ==
  /\ fpc = "check"
  /\ i # max_iterations.val - 1
  /\ LET acc == CheckParametersFrom(1,
                  [limits |-> limits_dict, run_fitting |-> run_fitting,
                   at_logical_limit |-> <<>>, trig |-> {}], result)
     IN /\ limits_dict' = acc.limits
        /\ run_fitting' = acc.run_fitting
        /\ at_logical_limit' = acc.at_logical_limit
        /\ trig' = acc.trig
  /\ i' = i + 1
  /\ fpc' = "minimize"
  /\ UNCHANGED <<max_iterations, message, limits_entry, result, nfits,
                 fit_bounds, printed, ferr>>
  /\ UNCHANGED <<sbVars, stdVars, waveVars, convVars, moreVars>>

\* estimate.py 352-402, 404-410: a round that is not the last allowed one
WidenRound ==
  /\ fpc = "check"
  /\ i # max_iterations.val - 1
  /\ LET acc == CheckParametersFrom(1,
                  [limits |-> limits_dict, run_fitting |-> run_fitting,
                   at_logical_limit |-> <<>>, trig |-> {}], result)
     IN /\ limits_dict' = acc.limits
        /\ run_fitting' = acc.run_fitting
        /\ at_logical_limit' = acc.at_logical_limit
        /\ trig' = acc.trig
        /\ IF acc.run_fitting
           THEN /\ i' = i + 1
                /\ fpc' = "minimize"
                /\ printed' = printed
           ELSE /\ i' = i
                /\ fpc' = "done"
                /\ printed' = [not_converged |-> <<>>,
                               logical |-> LogicalMessage(acc.at_logical_limit)]
  /\ UNCHANGED <<max_iterations, message, limits_entry, result, nfits,
                 fit_bounds, ferr>>
  /\ UNCHANGED <<sbVars, stdVars, waveVars, convVars, moreVars>>

-----------------------------------------------------------------------------
(* set_bounds                                                              *)

\* SetBoundsEntry clipping the upper bound only when it is below upper_max
SetBoundsEntry_ClipInverted(e, value) ==
  LET lower_bound == value - e.width
      upper_bound == value + e.width
  IN [e EXCEPT
        !.has_bounds = TRUE,
        !.lower_bound = IF e.has_lower_max /\ lower_bound < e.lower_max
                        THEN e.lower_max ELSE lower_bound,
        !.upper_bound = IF e.has_upper_max /\ upper_bound < e.upper_max
                        THEN e.upper_max ELSE upper_bound]

\* fit.py 40-50 (estimate.py 287-297): the bounds of one variable
SetBoundsEntry(e, value) ==
  LET lower_bound == value - e.width
      upper_bound == value + e.width
  IN [e EXCEPT
        !.has_bounds = TRUE,
        !.lower_bound = IF e.has_lower_max /\ lower_bound < e.lower_max
                        THEN e.lower_max ELSE lower_bound,
        !.upper_bound = IF e.has_upper_max /\ upper_bound > e.upper_max
                        THEN e.upper_max ELSE upper_bound]

\* set_bounds passing over a variable that limits_dict does not hold
RECURSIVE SetBoundsFrom_SkipMissing(_, _, _)
SetBoundsFrom_SkipMissing(k, est, ld) ==
  IF k > Len(ParamOrder) THEN [err |-> NoError, limits |-> ld]
  ELSE LET key == ParamOrder[k] IN
       IF ~est[key].present THEN SetBoundsFrom_SkipMissing(k + 1, est, ld)
       ELSE IF ~ld[key].present THEN SetBoundsFrom_SkipMissing(k + 1, est, ld)
       ELSE IF ~ld[key].has_width
            THEN [err |-> [kind |-> "width not set", key |-> key], limits |-> ld]
       ELSE IF ld[key].width <= 0
            THEN [err |-> [kind |-> "width <= 0", key |-> key], limits |-> ld]
       ELSE SetBoundsFrom_SkipMissing(k + 1, est,
              [ld EXCEPT ![key] = SetBoundsEntry(ld[key], est[key].value)])

\* fit.py 28-52 (estimate.py 277-299): the loop over variable_estimates from
\* its k-th key on; the exception raised, and limits_dict as it is by then
RECURSIVE SetBoundsFrom(_, _, _)
SetBoundsFrom(k, est, ld) ==
  IF k > Len(ParamOrder) THEN [err |-> NoError, limits |-> ld]
  ELSE LET key == ParamOrder[k] IN
       IF ~est[key].present THEN SetBoundsFrom(k + 1, est, ld)
       ELSE IF ~ld[key].present
            THEN [err |-> [kind |-> "not in limits_dict", key |-> key],
                  limits |-> ld]
       ELSE IF ~ld[key].has_width
            THEN [err |-> [kind |-> "width not set", key |-> key], limits |-> ld]
       ELSE IF ld[key].width <= 0
            THEN [err |-> [kind |-> "width <= 0", key |-> key], limits |-> ld]
       ELSE SetBoundsFrom(k + 1, est,
              [ld EXCEPT ![key] = SetBoundsEntry(ld[key], est[key].value)])

\* The point estimates tried: none for the key, or a value below, inside or
\* above the interval of the hard limits.
EstimateOpts ==
  {[present |-> FALSE, value |-> 0]}
  \cup {[present |-> TRUE, value |-> v] : v \in {800, 1100, 1200, 1800}}

\* The entries of limits_dict tried: the key missing, no width, a width <= 0,
\* or a width with the hard limits 1000 and 1400 configured or not.
ConfigOpts ==
  {ConfigEntry(FALSE, FALSE, 0, NoMax, NoMax),
   ConfigEntry(TRUE, FALSE, 0, SomeMax(1000), SomeMax(1400)),
   ConfigEntry(TRUE, TRUE, 0, NoMax, NoMax),
   ConfigEntry(TRUE, TRUE, -300, NoMax, SomeMax(1400))}
  \cup {ConfigEntry(TRUE, TRUE, w, l, u) :
          w \in {100, 300}, l \in {NoMax, SomeMax(1000)},
          u \in {NoMax, SomeMax(1400)}}

InitSetBounds ==
  /\ sbpc = "call"
  /\ variable_estimates \in [Params -> EstimateOpts]
  /\ sb_config \in [Params -> ConfigOpts]
  /\ sb_limits = sb_config
  /\ sberr = NoError

\* The state of set_bounds while another routine is looked at.
IdleSetBounds ==
  /\ sbpc = "idle"
  /\ variable_estimates = [n \in Params |-> [present |-> FALSE, value |-> 0]]
  /\ sb_config = [n \in Params |-> ConfigEntry(FALSE, FALSE, 0, NoMax, NoMax)]
  /\ sb_limits = sb_config
  /\ sberr = NoError

\* fit.py 28-52 (estimate.py 277-299)
SetBounds ==
  /\ sbpc = "call"
  /\ LET out == SetBoundsFrom(1, variable_estimates, sb_limits) IN
       /\ sb_limits' = out.limits
       /\ sberr' = out.err
       /\ sbpc' = IF out.err = NoError THEN "returned" ELSE "raised"
  /\ UNCHANGED <<variable_estimates, sb_config>>
  /\ UNCHANGED <<fitVars, stdVars, waveVars, convVars, moreVars>>

-----------------------------------------------------------------------------
(* standard_container.from_txt                                             *)

\* A text table of nrows rows and ncols columns; the cell of row r and (zero
\* based) column c holds base + 10 * r + c, so that no two columns agree and
\* no cell is zero. The values are small integers, which float32 holds
\* exactly.
Table(nrows, ncols, base) ==
  [r \in 1 .. nrows |-> [c \in 1 .. ncols |-> base + 10 * r + (c - 1)]]

\* The table with its last row one number short.
Ragged(rows) ==
  [r \in DOMAIN rows |->
     IF r = Len(rows) THEN SubSeq(rows[r], 1, Len(rows[r]) - 1) ELSE rows[r]]

\* standard.py 37, numpy.genfromtxt: rows of unequal length are an error; the
\* array read is squeezed, so a file of one row or of one column gives a one
\* dimensional array, and an empty file an empty one.
genfromtxt(rows) ==
  IF \E r \in DOMAIN rows : Len(rows[r]) # Len(rows[1])
  THEN [exc |-> "ValueError", shape |-> <<>>]
  ELSE IF Len(rows) = 0
       THEN [exc |-> "none", shape |-> <<0>>]
       ELSE [exc |-> "none",
             shape |-> SelectSeq(<<Len(rows), Len(rows[1])>>,
                                 LAMBDA d : d # 1)]

\* arr[:, c], for the zero based column c, of row r
Column(rows, r, c) == rows[r][c + 1]

\* arr[:, c:], of row r
ColumnsFrom(rows, r, c) == SubSeq(rows[r], c + 1, Len(rows[r]))

NoData == <<>>

\* standard.py 36-69: the exception raised and whether its message names the
\* file, or the rows of the container returned
StdFromTxt(rows, filename) ==
  LET arr == genfromtxt(rows) IN
  IF arr.exc # "none"
  THEN [exc |-> arr.exc, names_file |-> FALSE, data |-> NoData]
  ELSE IF Len(arr.shape) < 2
  THEN [exc |-> "IndexError", names_file |-> FALSE, data |-> NoData]
  ELSE IF arr.shape[2] = 5
  THEN [exc |-> "none", names_file |-> FALSE,
        data |-> [r \in DOMAIN rows |->
                    [time |-> 0, det_id |-> 0,
                     gantry_x |-> Column(rows, r, 0),
                     gantry_y |-> Column(rows, r, 1),
                     gantry_z |-> Column(rows, r, 2),
                     led_bv |-> 0, led_temp |-> 0, sipm_temp |-> 0,
                     payload |-> ColumnsFrom(rows, r, 3)]]]
  ELSE IF arr.shape[2] >= 9
  THEN [exc |-> "none", names_file |-> FALSE,
        data |-> [r \in DOMAIN rows |->
                    [time |-> Column(rows, r, 0),
                     det_id |-> Column(rows, r, 1),
                     gantry_x |-> Column(rows, r, 2),
                     gantry_y |-> Column(rows, r, 3),
                     gantry_z |-> Column(rows, r, 4),
                     led_bv |-> Column(rows, r, 5),
                     led_temp |-> Column(rows, r, 6),
                     sipm_temp |-> Column(rows, r, 7),
                     payload |-> ColumnsFrom(rows, r, 8)]]]
  ELSE [exc |-> "RuntimeError", names_file |-> TRUE, data |-> NoData]

NoStdOut == [exc |-> "none", names_file |-> FALSE, data |-> NoData]

\* The files tried: up to MaxRows rows of up to MaxCols columns, whole or with
\* the last row a number short, and the empty file.
StdFiles ==
  LET whole == {Table(nr, nc, b) :
                  nr \in 0 .. MaxRows, nc \in 1 .. MaxCols, b \in {1, 100}}
  IN whole \cup {Ragged(t) : t \in {w \in whole : Len(w) >= 2}}

InitStd ==
  /\ stdpc = "call"
  /\ std_file \in StdFiles
  /\ std_out = NoStdOut

IdleStd ==
  /\ stdpc = "idle"
  /\ std_file = <<>>
  /\ std_out = NoStdOut

\* standard.py 36-69
StdFromTxtCall ==
  /\ stdpc = "call"
  /\ std_out' = StdFromTxt(std_file, "file")
  /\ stdpc' = IF std_out'.exc = "none" THEN "returned" ELSE "raised"
  /\ UNCHANGED std_file
  /\ UNCHANGED <<fitVars, sbVars, waveVars, convVars, moreVars>>

-----------------------------------------------------------------------------
(* waveform_container.from_txt                                             *)

\* A token of the settings line: an integer literal ("2"), a decimal literal
\* ("2.5") or a word that is no number. val is ten times the number written.
IntToken(n) == [kind |-> "int", val |-> 10 * n]
DecToken(tenths) == [kind |-> "dec", val |-> tenths]
WordToken == [kind |-> "word", val |-> 0]

\* float(token), in tenths: a ValueError for a word
PyFloat(tok) ==
  IF tok.kind \in {"int", "dec"}
  THEN [exc |-> "none", v |-> tok.val]
  ELSE [exc |-> "ValueError", v |-> 0]

\* int(token): a ValueError for anything but an integer literal
PyInt(tok) ==
  IF tok.kind = "int"
  THEN [exc |-> "none", v |-> tok.val \div 10]
  ELSE [exc |-> "ValueError", v |-> 0]

\* waveform.py 38-41: __adc_dtype_dict__, the width in bits of the sample type
adc_dtype_bits(adc_bits) == IF adc_bits = 2 THEN 8 ELSE 16

RECURSIVE Pow(_, _)
Pow(b, n) == IF n = 0 THEN 1 ELSE b * Pow(b, n - 1)

\* int(chunk, 16): the number a string of hex digits writes
RECURSIVE HexValue(_)
HexValue(chunk) ==
  IF Len(chunk) = 0 THEN 0
  ELSE 16 * HexValue(SubSeq(chunk, 1, Len(chunk) - 1)) + chunk[Len(chunk)]

\* astype that keeps the unsigned value
AsSigned_NoWrap(v, bits) == v

\* numpy astype to a signed integer type of the given width: the value wraps
AsSigned(v, bits) ==
  LET m == v % Pow(2, bits)
  IN IF m >= Pow(2, bits - 1) THEN m - Pow(2, bits) ELSE m

\* waveform.py 82-89: convert_line, the samples of one event line
RECURSIVE convert_line(_, _)
convert_line(line, adc_bits) ==
  IF Len(line) = 0 THEN <<>>
  ELSE LET n == Min(adc_bits, Len(line)) IN
       <<AsSigned(HexValue(SubSeq(line, 1, n)), adc_dtype_bits(adc_bits))>>
       \o convert_line(SubSeq(line, n + 1, Len(line)), adc_bits)

NoSettings ==
  [timeintervals |-> 0, triggerdelay |-> 0, adc_val |-> 0, adc_bits |-> 0,
   invert |-> FALSE]

WaveRaise(exc, names_file, has_settings, settings) ==
  [exc |-> exc, names_file |-> names_file, has_settings |-> has_settings,
   settings |-> settings, decoded |-> 0, waveforms |-> <<>>]

\* waveform.py 80-99: the events decoded under the settings read
WaveDecode(settings, events) ==
  IF settings.adc_bits \notin {2, 4}
  THEN \* range() with a step of 0, or no entry in __adc_dtype_dict__
       WaveRaise(IF settings.adc_bits = 0 /\ Len(events) > 0
                 THEN "ValueError" ELSE "KeyError", FALSE, TRUE, settings)
  ELSE [exc |-> "none", names_file |-> FALSE, has_settings |-> TRUE,
        settings |-> settings, decoded |-> Len(events),
        waveforms |-> [k \in DOMAIN events |->
                         convert_line(events[k], settings.adc_bits)]]

\* from_txt taking the time interval of the new format from its first token
WaveFromTxt_WrongToken(file, filepath) ==
  LET settings_line == file.settings_line IN
  IF Len(settings_line) = 5
  THEN LET t == PyFloat(settings_line[1])
           a == PyFloat(settings_line[5])
       IN IF t.exc # "none" THEN WaveRaise(t.exc, FALSE, FALSE, NoSettings)
          ELSE IF a.exc # "none" THEN WaveRaise(a.exc, FALSE, FALSE, NoSettings)
          ELSE WaveDecode([timeintervals |-> t.v, triggerdelay |-> 0,
                           adc_val |-> a.v * 256, adc_bits |-> 2,
                           invert |-> TRUE], file.events)
  ELSE IF Len(settings_line) = 3
  THEN LET t == PyFloat(settings_line[1])
           a == PyFloat(settings_line[1])
           b == PyInt(settings_line[2])
       IN IF t.exc # "none" THEN WaveRaise(t.exc, FALSE, FALSE, NoSettings)
          ELSE IF a.exc # "none" THEN WaveRaise(a.exc, FALSE, FALSE, NoSettings)
          ELSE IF b.exc # "none" THEN WaveRaise(b.exc, FALSE, FALSE, NoSettings)
          ELSE WaveDecode([timeintervals |-> t.v, triggerdelay |-> 0,
                           adc_val |-> a.v, adc_bits |-> b.v,
                           invert |-> TRUE], file.events)
  ELSE WaveRaise("RuntimeError", TRUE, FALSE, NoSettings)

\* waveform.py 50-99: the exception raised and whether its message names the
\* file, the settings if they were built, and the waveforms of the container
WaveFromTxt(file, filepath) ==
  LET settings_line == file.settings_line IN
  IF Len(settings_line) = 5
  THEN LET t == PyFloat(settings_line[1])
           a == PyFloat(settings_line[5])
       IN IF t.exc # "none" THEN WaveRaise(t.exc, FALSE, FALSE, NoSettings)
          ELSE IF a.exc # "none" THEN WaveRaise(a.exc, FALSE, FALSE, NoSettings)
          ELSE WaveDecode([timeintervals |-> t.v, triggerdelay |-> 0,
                           adc_val |-> a.v * 256, adc_bits |-> 2,
                           invert |-> TRUE], file.events)
  ELSE IF Len(settings_line) = 3
  THEN LET t == PyFloat(settings_line[3])
           a == PyFloat(settings_line[1])
           b == PyInt(settings_line[2])
       IN IF t.exc # "none" THEN WaveRaise(t.exc, FALSE, FALSE, NoSettings)
          ELSE IF a.exc # "none" THEN WaveRaise(a.exc, FALSE, FALSE, NoSettings)
          ELSE IF b.exc # "none" THEN WaveRaise(b.exc, FALSE, FALSE, NoSettings)
          ELSE WaveDecode([timeintervals |-> t.v, triggerdelay |-> 0,
                           adc_val |-> a.v, adc_bits |-> b.v,
                           invert |-> TRUE], file.events)
  ELSE WaveRaise("RuntimeError", TRUE, FALSE, NoSettings)

NoWaveOut == WaveRaise("none", FALSE, FALSE, NoSettings)

\* The tokens tried: the sample widths 2 and 4, a width with no sample type, a
\* decimal and a word.
TokenOpts == {IntToken(2), IntToken(4), IntToken(3), DecToken(5), WordToken}

\* A settings line of n tokens: its first, its second and its last token are
\* a, b and c, the ones between are "1".
SettingsLine(n, a, b, c) ==
  [k \in 1 .. n |->
     IF k = n /\ n >= 3 THEN c
     ELSE IF k = 1 THEN a ELSE IF k = 2 THEN b ELSE IntToken(1)]

\* The event lines tried, as hex digits: no line, one line of one or two
\* samples of either width, a line that ends in a short chunk, two lines.
EventOpts ==
  {<<>>, << <<8, 0, 15>> >>, << <<7, 15>>, <<8, 0, 15, 15>> >>,
   << <<7, 15, 15, 15, 8, 0, 0, 0>> >>}
  \cup {<< <<a, b>> >> : a \in {0, 7, 8, 15}, b \in {0, 15}}
  \cup {<< <<a, b, c, d>> >> : a \in {0, 7, 8, 15}, b \in {0}, c \in {15},
                               d \in {0, 15}}

InitWave ==
  /\ wpc = "call"
  /\ wave_file \in
       {[settings_line |-> SettingsLine(n, a, b, c), events |-> ev] :
          n \in 0 .. MaxTokens, a \in TokenOpts, b \in TokenOpts,
          c \in TokenOpts, ev \in EventOpts}
  /\ wave_out = NoWaveOut

IdleWave ==
  /\ wpc = "idle"
  /\ wave_file = [settings_line |-> <<>>, events |-> <<>>]
  /\ wave_out = NoWaveOut

\* waveform.py 50-99
WaveFromTxtCall ==
  /\ wpc = "call"
  /\ wave_out' = WaveFromTxt(wave_file, "file")
  /\ wpc' = IF wave_out'.exc = "none" THEN "returned" ELSE "raised"
  /\ UNCHANGED wave_file
  /\ UNCHANGED <<fitVars, sbVars, stdVars, convVars, moreVars>>

-----------------------------------------------------------------------------
(* The conversion scripts                                                  *)

\* Paths are sequences of characters.
TxtExt == <<".", "t", "x", "t">>
RootExt == <<".", "r", "o", "o", "t">>

\* str.replace: every occurrence of old, from the left, replaced by new
RECURSIVE Replace(_, _, _)
Replace(s, old, new) ==
  IF Len(s) < Len(old) THEN s
  ELSE IF SubSeq(s, 1, Len(old)) = old
       THEN new \o Replace(SubSeq(s, Len(old) + 1, Len(s)), old, new)
       ELSE <<s[1]>> \o Replace(Tail(s), old, new)

\* The exception classes of the model; each derives from Exception.
ExceptionClasses ==
  {"RuntimeError", "IndexError", "ValueError", "KeyError", "OSError"}

\* An except clause that catches RuntimeError alone
Caught_OnlyRuntimeError(exc) == exc = "RuntimeError"

\* waveform_txt_to_root.py 24, lumi_txt_to_root.py 32: except Exception
Caught(exc) == exc \in ExceptionClasses

\* save_to_file (uproot.recreate): fails when the file cannot be written
SaveToFile(f) == IF f.write_ok THEN "none" ELSE "OSError"

StdFields ==
  {"time", "det_id", "gantry_x", "gantry_y", "gantry_z", "led_bv", "led_temp",
   "sipm_temp", "payload"}

\* waveform_txt_to_root.py 21-22: the exception raised, or the tree written
ConvertWaveform(f) ==
  LET container == WaveFromTxt(f.content, f.path) IN
  IF container.exc # "none" THEN [exc |-> container.exc, fields |-> {}]
  ELSE IF SaveToFile(f) # "none" THEN [exc |-> SaveToFile(f), fields |-> {}]
  ELSE [exc |-> "none", fields |-> {"waveforms"}]

\* lumi_txt_to_root.py 22-30: the exception raised, or the fields written
ConvertLumi(f) ==
  LET std_cont == StdFromTxt(f.content, f.path) IN
  IF std_cont.exc # "none" THEN [exc |-> std_cont.exc, fields |-> {}]
  ELSE IF Len(std_cont.data[1].payload) < 2
  THEN \* payload[:, 1] of a payload of one column
       [exc |-> "IndexError", fields |-> {}]
  ELSE IF SaveToFile(f) # "none" THEN [exc |-> SaveToFile(f), fields |-> {}]
  ELSE [exc |-> "none",
        fields |-> (StdFields \cup {"lumival", "uncval"}) \ {"payload"}]

\* The body of the loop for the file in_f, the idx-th of total (idx from 0),
\* whose conversion ended as conv: what is printed, written and let through
LoopBody(in_f, idx, total, conv) ==
  LET out_f == Replace(in_f.path, TxtExt, RootExt)
      progress == [kind |-> "progress", path |-> in_f.path, idx |-> idx + 1,
                   total |-> total, exc |-> "none"]
      error == [kind |-> "error", path |-> <<>>, idx |-> 0, total |-> 0,
                exc |-> conv.exc]
  IN [printed |-> IF conv.exc # "none" /\ Caught(conv.exc)
                  THEN <<progress, error>> ELSE <<progress>>,
      written |-> IF conv.exc = "none"
                  THEN <<[path |-> out_f, fields |-> conv.fields]>> ELSE <<>>,
      propagated |-> conv.exc # "none" /\ ~Caught(conv.exc)]

GoodEvents == << <<7, 15, 8, 0>> >>

\* The settings line of a waveform file of n tokens, the second token b
WaveFile(n, b) ==
  [settings_line |-> SettingsLine(n, DecToken(5), b, DecToken(25)),
   events |-> GoodEvents]

\* The waveform files tried: the two settings formats, a settings line of four
\* tokens, a sample width with no sample type, a path without the extension,
\* and a file that cannot be written.
WaveInputs ==
  {[path |-> <<"w">> \o TxtExt, content |-> WaveFile(n, IntToken(2)),
    write_ok |-> TRUE] : n \in {3, 4, 5}}
  \cup {[path |-> <<"w", ".", "d", "a", "t">>, content |-> WaveFile(3, b),
         write_ok |-> TRUE] : b \in {IntToken(3), IntToken(4)}}
  \cup {[path |-> <<"w">> \o TxtExt, content |-> WaveFile(3, IntToken(4)),
         write_ok |-> FALSE]}

\* The luminosity files tried: two rows of 4, 5, 9 or 10 columns, one row of 5
\* columns, a path without the extension, and a file that cannot be written.
LumiInputs ==
  {[path |-> <<"l">> \o TxtExt, content |-> c, write_ok |-> TRUE] :
     c \in {Table(2, 4, 1), Table(2, 5, 1), Table(2, 9, 1), Table(1, 5, 1)}}
  \cup {[path |-> <<"l", ".", "d", "a", "t">>, content |-> Table(2, 10, 1),
         write_ok |-> TRUE],
        [path |-> <<"l">> \o TxtExt, content |-> Table(2, 5, 1),
         write_ok |-> FALSE]}

InitConv ==
  /\ script \in {"waveform", "lumi"}
  /\ input \in UNION {[1 .. n -> IF script = "waveform" THEN WaveInputs
                                 ELSE LumiInputs] : n \in 1 .. MaxFiles}
  /\ cidx = 0
  /\ log = <<>>
  /\ saved = <<>>
  /\ propagated = FALSE

IdleConv ==
  /\ script = "idle"
  /\ input = <<>>
  /\ cidx = 0
  /\ log = <<>>
  /\ saved = <<>>
  /\ propagated = FALSE

\* waveform_txt_to_root.py 17-26: one turn of the loop
ConvertWaveformFile ==
  /\ script = "waveform"
  /\ cidx < Len(input)
  /\ ~propagated
  /\ LET in_f == input[cidx + 1]
         body == LoopBody(in_f, cidx, Len(input), ConvertWaveform(in_f))
     IN /\ log' = log \o body.printed
        /\ saved' = saved \o body.written
        /\ propagated' = body.propagated
  /\ cidx' = cidx + 1
  /\ UNCHANGED <<script, input>>
  /\ UNCHANGED <<fitVars, sbVars, stdVars, waveVars, moreVars>>

\* lumi_txt_to_root.py 18-34: one turn of the loop
ConvertLumiFile ==
  /\ script = "lumi"
  /\ cidx < Len(input)
  /\ ~propagated
  /\ LET in_f == input[cidx + 1]
         body == LoopBody(in_f, cidx, Len(input), ConvertLumi(in_f))
     IN /\ log' = log \o body.printed
        /\ saved' = saved \o body.written
        /\ propagated' = body.propagated
  /\ cidx' = cidx + 1
  /\ UNCHANGED <<script, input>>
  /\ UNCHANGED <<fitVars, sbVars, stdVars, waveVars, moreVars>>

-----------------------------------------------------------------------------
(* create_response_pdf_data and update_response_parameter_bounds (fit.py)  *)

\* fit.py 74-87
__response_var_list__ ==
  <<"pedestal", "gain", "common_noise", "pixel_noise", "poisson_mean",
    "poisson_borel", "ap_beta", "ap_prob", "dc_prob", "dc_res">>

ResponseVars == Range(__response_var_list__)

\* An entry of the parameters dictionary: a Python float, a numpy.float64, a
\* Python int, or a tuple of numbers; "absent" when the key is not there.
Scalar(kind, c) == [kind |-> kind, v |-> <<c>>]
Tuple(v) == [kind |-> "tuple", v |-> v]
Absent == [kind |-> "absent", v |-> <<>>]

Abs(x) == IF x < 0 THEN -x ELSE x

\* A membership test that finds every key
KeyInParameters_Always(params, var) == TRUE

\* fit.py 107, 159: var in parameters.keys()
KeyInParameters(params, var) == params[var].kind # "absent"

\* fit.py 111-113, 165-167: type(..) is float or type(..) is numpy.float64 or
\* len(..) == 1; len() of an int is a TypeError
IsFixedEntry(e) ==
  IF e.kind = "absent" THEN [exc |-> "KeyError", fixed |-> FALSE]
  ELSE IF e.kind \in {"float", "float64"} THEN [exc |-> "none", fixed |-> TRUE]
  ELSE IF e.kind = "int" THEN [exc |-> "TypeError", fixed |-> FALSE]
  ELSE [exc |-> "none", fixed |-> Len(e.v) = 1]

NoParam ==
  [name |-> "", floating |-> FALSE, value |-> <<>>, value_is_tuple |-> FALSE,
   lower |-> 0, upper |-> 0]

\* fit.py 110-130: the zfit parameter made for var, or the exception raised
CreateParam(e, var, rname) ==
  LET t == IsFixedEntry(e) IN
  IF t.exc # "none" THEN [exc |-> t.exc, param |-> NoParam]
  ELSE IF t.fixed
  THEN \* ConstantParameter(var + routine_name, parameters[var])
       [exc |-> "none",
        param |-> [name |-> var \o rname, floating |-> FALSE, value |-> e.v,
                   value_is_tuple |-> e.kind = "tuple", lower |-> 0,
                   upper |-> 0]]
  ELSE IF Len(e.v) = 2
  THEN [exc |-> "none",
        param |-> [name |-> var \o rname, floating |-> TRUE,
                   value |-> <<e.v[1]>>, value_is_tuple |-> FALSE,
                   lower |-> e.v[1] - Abs(e.v[2]),
                   upper |-> e.v[1] + Abs(e.v[2])]]
  ELSE IF Len(e.v) = 3
  THEN [exc |-> "none",
        param |-> [name |-> var \o rname, floating |-> TRUE,
                   value |-> <<e.v[1]>>, value_is_tuple |-> FALSE,
                   lower |-> e.v[2], upper |-> e.v[3]]]
  ELSE [exc |-> "ValueError", param |-> NoParam]

NoRespOut ==
  [op |-> "none", exc |-> "none", var |-> "", params |-> <<>>, pdf |-> FALSE,
   dict |-> <<>>]

\* fit.py 104-134: the loop from the k-th variable on, params the parameters
\* made so far; the response pdf is built once the loop is through
RECURSIVE CreateFrom(_, _, _, _)
CreateFrom(k, params, rname, made) ==
  IF k > Len(__response_var_list__)
  THEN [op |-> "create", exc |-> "none", var |-> "", params |-> made,
        pdf |-> TRUE, dict |-> <<>>]
  ELSE LET var == __response_var_list__[k] IN
       IF ~KeyInParameters(params, var)
       THEN [op |-> "create", exc |-> "AssertionError", var |-> var,
             params |-> made, pdf |-> FALSE, dict |-> <<>>]
       ELSE LET c == CreateParam(params[var], var, rname) IN
            IF c.exc # "none"
            THEN [op |-> "create", exc |-> c.exc, var |-> var,
                  params |-> made, pdf |-> FALSE, dict |-> <<>>]
            ELSE CreateFrom(k + 1, params, rname, Append(made, c.param))

\* str.startswith
StartsWith(k, prefix) ==
  Len(k) >= Len(prefix) /\ SubSeq(k, 1, Len(prefix)) = prefix

\* fit.py 170-173, 176-179: the first fit parameter whose name starts with
\* var, 0 when there is none
RECURSIVE FirstFitParam(_, _, _)
FirstFitParam(fit_params, var, k) ==
  IF k > Len(fit_params) THEN 0
  ELSE IF StartsWith(fit_params[k].name, var) THEN k
  ELSE FirstFitParam(fit_params, var, k + 1)

NoEntry == [cen |-> 0, lo |-> 0, up |-> 0]

\* fit.py 162-181: the entry [cen, cen - unc, cen + unc] of var, or the
\* exception raised. cen is None, a tuple or a number when unc is computed.
UpdateEntry(e, var, mn, rel_range, unc_range) ==
  LET t == IsFixedEntry(e)
      f == FirstFitParam(mn, var, 1)
  IN IF t.exc # "none" THEN [exc |-> t.exc, entry |-> NoEntry]
     ELSE IF f = 0
     THEN IF t.fixed /\ e.kind # "tuple"
          THEN LET cen == e.v[1]
                   unc == (rel_range * cen) \div 10
               IN [exc |-> "none",
                   entry |-> [cen |-> cen, lo |-> cen - unc, up |-> cen + unc]]
          ELSE \* relative_range * None, or relative_range * (c,)
               [exc |-> "TypeError", entry |-> NoEntry]
     ELSE LET cen == mn[f].value
              unc == (unc_range * mn[f].error) \div 10
          IN [exc |-> "none",
              entry |-> [cen |-> cen, lo |-> cen - unc, up |-> cen + unc]]

\* fit.py 152-183: the loop from the k-th variable on, made the entries so far
RECURSIVE UpdateFrom(_, _, _, _, _, _)
UpdateFrom(k, params, mn, rel_range, unc_range, made) ==
  IF k > Len(__response_var_list__)
  THEN [op |-> "update", exc |-> "none", var |-> "", params |-> <<>>,
        pdf |-> FALSE, dict |-> made]
  ELSE LET var == __response_var_list__[k] IN
       IF ~KeyInParameters(params, var)
       THEN [op |-> "update", exc |-> "AssertionError", var |-> var,
             params |-> <<>>, pdf |-> FALSE, dict |-> <<>>]
       ELSE LET u == UpdateEntry(params[var], var, mn, rel_range, unc_range)
            IN IF u.exc # "none"
               THEN [op |-> "update", exc |-> u.exc, var |-> var,
                     params |-> <<>>, pdf |-> FALSE, dict |-> <<>>]
               ELSE UpdateFrom(k + 1, params, mn, rel_range, unc_range,
                               Append(made, u.entry))

\* The entries tried: the three scalar types, a negative float, tuples of 0
\* to 4 numbers, a negative half range, and no entry.
EntryOpts ==
  {Scalar("float", 100), Scalar("float64", 100), Scalar("int", 100),
   Scalar("float", 0 - 100),
   Tuple(<<>>), Tuple(<<100>>), Tuple(<<100, 20>>), Tuple(<<100, -20>>),
   Tuple(<<100, 70, 150>>), Tuple(<<100, 70, 150, 1>>), Absent}

\* The dictionaries tried: every variable a float but for the variables a and
\* b, which hold the entries ea and eb.
ParametersOpts ==
  {[var \in ResponseVars |->
      IF var = b THEN eb ELSE IF var = a THEN ea ELSE Scalar("float", 100)] :
     a \in ResponseVars, b \in {"pedestal", "dc_res"}, ea \in EntryOpts,
     eb \in EntryOpts}

\* The fit parameters of minuit for the floated variables, in the order of
\* the list, under the names create_response_pdf_data gave them
RECURSIVE FitParams(_, _, _)
FitParams(k, floated, rname) ==
  IF k > Len(__response_var_list__) THEN <<>>
  ELSE LET var == __response_var_list__[k] IN
       (IF var \in floated
        THEN <<[name |-> var \o rname, value |-> 110 + 10 * k, error |-> 7]>>
        ELSE <<>>) \o FitParams(k + 1, floated, rname)

\* The fits tried: nothing floated, the variables given as 2- and 3-tuples
\* floated, one variable floated, every variable floated.
FloatedOpts(params) ==
  {{}, {var \in ResponseVars : params[var].kind = "tuple"
                               /\ Len(params[var].v) \in {2, 3}},
   {"gain"}, ResponseVars}

InitResp ==
  /\ rpc = "call"
  /\ parameters \in ParametersOpts
  /\ routine_name \in {"fixed_param", "_r1"}
  /\ minuit \in {FitParams(1, fl, routine_name) : fl \in FloatedOpts(parameters)}
  /\ relative_range \in {3, 5}
  /\ fit_uncer_range = IF relative_range = 3 THEN 30 ELSE 20
  /\ resp_out = NoRespOut

IdleResp ==
  /\ rpc = "idle"
  /\ parameters = [var \in ResponseVars |-> Absent]
  /\ routine_name = ""
  /\ minuit = <<>>
  /\ relative_range = 0
  /\ fit_uncer_range = 0
  /\ resp_out = NoRespOut

\* fit.py 90-134
CreateResponsePdfData ==
  /\ rpc = "call"
  /\ resp_out' = CreateFrom(1, parameters, routine_name, <<>>)
  /\ rpc' = IF resp_out'.exc = "none" THEN "created" ELSE "raised"
  /\ UNCHANGED <<parameters, routine_name, minuit, relative_range,
                 fit_uncer_range>>
  /\ UNCHANGED <<oldVars, gaussVars, peakVars, lpcVars, histVars,
                 numVars>>

\* fit.py 137-183
UpdateResponseParameterBounds ==
  /\ rpc = "call"
  /\ resp_out' = UpdateFrom(1, parameters, minuit, relative_range,
                            fit_uncer_range, <<>>)
  /\ rpc' = IF resp_out'.exc = "none" THEN "updated" ELSE "raised"
  /\ UNCHANGED <<parameters, routine_name, minuit, relative_range,
                 fit_uncer_range>>
  /\ UNCHANGED <<oldVars, gaussVars, peakVars, lpcVars, histVars,
                 numVars>>

-----------------------------------------------------------------------------
(* estimate_gauss_param (estimate/lowlight.py)                             *)
(* The axis starts at 0; a position is in units of which a bin width has   *)
(* an even number.                                                         *)

\* x_axis.edges and x_axis.centers of a regular axis of n bins, bin k counted
\* from 0
AxisEdge(k, bin_width) == k * bin_width
AxisCenter(k, bin_width) == k * bin_width + bin_width \div 2

\* numpy.digitize(x, edges): the number of edges that are <= x
Digitize(x, n, bin_width) ==
  Cardinality({k \in 0 .. n : AxisEdge(k, bin_width) <= x})

\* lowlight.py 96-100: min_bin, max_bin and the bins of the slice
\* [min_bin:max_bin], which leaves max_bin out
FitWindow(peak_bin, count, n) ==
  LET min_bin == Max(peak_bin - count, 0)
      max_bin == Min(peak_bin + count, n - 1)
  IN [min_bin |-> min_bin, max_bin |-> max_bin,
      bins |-> min_bin .. max_bin - 1]

\* A test on the distance of x0 from the peak centre
GoodFit_AbsOffset(x0, sig, peak_cen, bin_width) ==
  Abs(x0 - peak_cen) < 5 * bin_width /\ sig < 10 * bin_width

\* lowlight.py 108-111: the fit is kept
GoodFit(x0, sig, peak_cen, bin_width) ==
  ~((x0 - peak_cen) >= 5 * bin_width) /\ ~(sig >= 10 * bin_width)

\* lowlight.py 103-105: what curve_fit may give for the peak centre peak_cen
\* over npoints bins: an exception when there are fewer points than the three
\* parameters or when no optimum is found, else (norm, x0, sig) with x0 and
\* sig on either side of the two thresholds
CurveFitOutcomes(peak_cen, bin_width, npoints) ==
  IF npoints = 0 THEN {[exc |-> "ValueError", norm |-> 0, x0 |-> 0, sig |-> 0]}
  ELSE IF npoints < 3
  THEN {[exc |-> "TypeError", norm |-> 0, x0 |-> 0, sig |-> 0]}
  ELSE {[exc |-> "RuntimeError", norm |-> 0, x0 |-> 0, sig |-> 0]}
       \cup {[exc |-> "none", norm |-> 10000, x0 |-> peak_cen + dx, sig |-> s] :
               dx \in {5 * bin_width - 1, 5 * bin_width},
               s \in {10 * bin_width - 1, 10 * bin_width}}
       \cup {[exc |-> "none", norm |-> 10000, x0 |-> peak_cen - 6 * bin_width,
              sig |-> 3]}

\* The peak positions tried: the centres of an ascending choice of bins
RECURSIVE AscendingBins(_, _)
AscendingBins(n, len) ==
  IF len = 0 THEN {<<>>}
  ELSE {Append(s, b) : s \in AscendingBins(n, len - 1), b \in 0 .. n - 1}

PeakBinOpts(n) ==
  {s \in UNION {AscendingBins(n, len) : len \in 0 .. MaxPeaks} :
     \A k \in 1 .. Len(s) - 1 : s[k] < s[k + 1]}

InitGauss ==
  /\ gpc = "call"
  /\ g_nbins \in 1 .. MaxBins
  /\ g_bin_width \in {2, 4}
  /\ peak_positions \in
       {[k \in DOMAIN s |-> AxisCenter(s[k], g_bin_width)] :
          s \in PeakBinOpts(g_nbins)}
  /\ fit_bin_count \in {[isint |-> TRUE, val |-> v] : v \in 0 .. MaxFitBins}
                       \cup {[isint |-> FALSE, val |-> 2]}
  /\ peak_bin_numbers = <<>>
  /\ gidx = 0
  /\ windows = <<>>
  /\ fits = <<>>
  /\ return_dict = <<>>
  /\ gerr = "none"

IdleGauss ==
  /\ gpc = "idle"
  /\ g_nbins = 0
  /\ g_bin_width = 0
  /\ peak_positions = <<>>
  /\ fit_bin_count = [isint |-> TRUE, val |-> 0]
  /\ peak_bin_numbers = <<>>
  /\ gidx = 0
  /\ windows = <<>>
  /\ fits = <<>>
  /\ return_dict = <<>>
  /\ gerr = "none"

\* lowlight.py 72-91: the assertions, the empty lists and the peak bins
EstimateGaussParam ==
  /\ gpc = "call"
  /\ IF ~fit_bin_count.isint \/ ~(fit_bin_count.val > 0)
     THEN /\ gpc' = "raised"
          /\ gerr' = "AssertionError"
          /\ UNCHANGED peak_bin_numbers
     ELSE /\ gpc' = "loop"
          /\ peak_bin_numbers' =
               [k \in DOMAIN peak_positions |->
                  Digitize(peak_positions[k], g_nbins, g_bin_width) - 1]
          /\ UNCHANGED gerr
  /\ UNCHANGED <<g_nbins, g_bin_width, peak_positions, fit_bin_count, gidx,
                 windows, fits, return_dict>>
  /\ UNCHANGED <<oldVars, respVars, peakVars, lpcVars, histVars,
                 numVars>>

\* lowlight.py 92-121: one turn of the loop, for the peak of index gidx
FitPeak ==
  /\ gpc = "loop"
  /\ gidx < Len(peak_positions)
  /\ LET peak_id == gidx
         peak_bin == peak_bin_numbers[gidx + 1]
         peak_cen == peak_positions[gidx + 1]
         w == FitWindow(peak_bin, fit_bin_count.val, g_nbins)
     IN /\ windows' = Append(windows, [peak_id |-> peak_id,
                                       peak_bin |-> peak_bin, bins |-> w.bins])
        /\ \E f \in CurveFitOutcomes(peak_cen, g_bin_width,
                                     Cardinality(w.bins)) :
             IF f.exc # "none"
             THEN /\ gpc' = "raised"
                  /\ gerr' = f.exc
                  /\ UNCHANGED <<gidx, fits, return_dict>>
             ELSE /\ fits' = Append(fits, [peak_id |-> peak_id,
                                           peak_cen |-> peak_cen,
                                           norm |-> f.norm, x0 |-> f.x0,
                                           sig |-> f.sig])
                  /\ return_dict' =
                       IF GoodFit(f.x0, f.sig, peak_cen, g_bin_width)
                       THEN Append(return_dict,
                                   [peak_id |-> peak_id, mu |-> f.x0,
                                    sigma |-> f.sig, norm |-> f.norm,
                                    xrange |-> <<AxisCenter(w.min_bin,
                                                            g_bin_width),
                                                 AxisCenter(w.max_bin - 1,
                                                            g_bin_width)>>])
                       ELSE return_dict
                  /\ gidx' = gidx + 1
                  /\ UNCHANGED <<gpc, gerr>>
  /\ UNCHANGED <<g_nbins, g_bin_width, peak_positions, fit_bin_count,
                 peak_bin_numbers>>
  /\ UNCHANGED <<oldVars, respVars, peakVars, lpcVars, histVars,
                 numVars>>

\* lowlight.py 123
ReturnGaussParam ==
  /\ gpc = "loop"
  /\ gidx = Len(peak_positions)
  /\ gpc' = "returned"
  /\ UNCHANGED <<g_nbins, g_bin_width, peak_positions, fit_bin_count,
                 peak_bin_numbers, gidx, windows, fits, return_dict, gerr>>
  /\ UNCHANGED <<oldVars, respVars, peakVars, lpcVars, histVars,
                 numVars>>

-----------------------------------------------------------------------------
(* estimate_peaks (estimate/lowlight.py)                                   *)
(* Positions, bin widths and min_gain are in quarters: One is the number 1.*)

One == 4

\* The largest entry of a non-empty sequence of numbers
SeqMax(x) == CHOOSE m \in Range(x) : \A v \in Range(x) : v <= m

\* The ascending sequence of the numbers of a finite set
RECURSIVE SortedSeq(_)
SortedSeq(S) ==
  IF S = {} THEN <<>>
  ELSE LET m == CHOOSE v \in S : \A u \in S : v <= u
       IN <<m>> \o SortedSeq(S \ {m})

\* scipy _local_maxima_1d: the last sample of the run of equal samples that
\* starts at left, the last sample of x never taken into the run
RECURSIVE PlateauEnd(_, _)
PlateauEnd(x, left) ==
  IF left + 1 < Len(x) /\ x[left + 1] = x[left]
  THEN PlateauEnd(x, left + 1) ELSE left

\* scipy _local_maxima_1d: the midpoints of the runs that rise on the left and
\* fall on the right; the first and the last sample are never a maximum
LocalMaxima(x) ==
  SortedSeq({(left + PlateauEnd(x, left)) \div 2 :
               left \in {j \in 2 .. Len(x) - 1 :
                        /\ x[j - 1] < x[j]
                        /\ x[PlateauEnd(x, j) + 1] < x[j]}})

\* A distance that is min_gain itself, taken as a number of bins
PeakDistance_Untranslated(gain, bin_width) ==
  [num |-> gain, den |-> One]

\* lowlight.py 40: distance = min_gain / bin_width, a fraction
PeakDistance(gain, bin_width) == [num |-> gain, den |-> bin_width]

\* math.ceil of a positive fraction
Ceil(q) == (q.num + q.den - 1) \div q.den

\* scipy _select_by_peak_distance: the peaks are gone through in the order
\* order, from its last entry to its first, and a peak that is still kept
\* drops every other peak less than d samples from it
RECURSIVE SelectByPeakDistance(_, _, _, _, _)
SelectByPeakDistance(peaks, order, d, keep, pos) ==
  IF pos = 0 THEN keep
  ELSE LET j == order[pos] IN
       IF ~keep[j] THEN SelectByPeakDistance(peaks, order, d, keep, pos - 1)
       ELSE SelectByPeakDistance(
              peaks, order, d,
              [k \in DOMAIN peaks |->
                 keep[k] /\ (k = j \/ Abs(peaks[k] - peaks[j]) >= d)],
              pos - 1)

\* numpy.argsort of the heights: an order of the peaks by ascending height; the
\* order of peaks of equal height is the sort's choice
PriorityOrders(peaks, x) ==
  {o \in [DOMAIN peaks -> DOMAIN peaks] :
     /\ \A a, b \in DOMAIN peaks : a # b => o[a] # o[b]
     /\ \A a \in 1 .. Len(peaks) - 1 : x[peaks[o[a]]] <= x[peaks[o[a + 1]]]}

\* scipy.signal.find_peaks, the height condition: the local maxima of at
\* least max(x) * ratio / 100
TallMaxima(x, ratio) ==
  SelectSeq(LocalMaxima(x), LAMBDA p : 100 * x[p] >= SeqMax(x) * ratio)

\* scipy.signal.find_peaks(x, height, distance): the samples found, counted
\* from 1, for the order of the heights given
FindPeaks(x, ratio, distance, order) ==
  LET tall == TallMaxima(x, ratio)
      keep == SelectByPeakDistance(tall, order, Ceil(distance),
                                   [k \in DOMAIN tall |-> TRUE], Len(tall))
  IN SelectSeq(tall, LAMBDA p : \E k \in DOMAIN tall : tall[k] = p /\ keep[k])

\* The histograms tried
HistOpts == UNION {[1 .. n -> 0 .. 2] : n \in 1 .. MaxHistBins}

InitPeaks ==
  /\ ppc = "call"
  /\ h_data \in HistOpts
  /\ p_bin_width \in {2, 4, 8}
  /\ min_gain \in {0, 4, 8, 12}
  /\ min_ratio \in {0, 5, 60}
  /\ peaks_out = <<>>
  /\ perr = "none"

IdlePeaks ==
  /\ ppc = "idle"
  /\ h_data = <<>>
  /\ p_bin_width = 0
  /\ min_gain = 0
  /\ min_ratio = 0
  /\ peaks_out = <<>>
  /\ perr = "none"

\* lowlight.py 17-43; min_ratio is in hundredths
EstimatePeaks ==
  /\ ppc = "call"
  /\ IF ~(min_gain > 0) \/ ~(0 < min_ratio /\ min_ratio < 100)
     THEN ppc' = "raised" /\ perr' = "AssertionError" /\ UNCHANGED peaks_out
     ELSE LET distance == PeakDistance(min_gain, p_bin_width) IN
          IF distance.num < distance.den
          THEN \* find_peaks: `distance` must be greater or equal to 1
               ppc' = "raised" /\ perr' = "ValueError" /\ UNCHANGED peaks_out
          ELSE \E order \in PriorityOrders(TallMaxima(h_data, min_ratio),
                                            h_data) :
                 LET peak_bin_numbers_ ==
                       FindPeaks(h_data, min_ratio, distance, order)
                 IN /\ peaks_out' =
                         [k \in DOMAIN peak_bin_numbers_ |->
                            AxisCenter(peak_bin_numbers_[k] - 1, p_bin_width)]
                    /\ ppc' = "returned"
                    /\ UNCHANGED perr
  /\ UNCHANGED <<h_data, p_bin_width, min_gain, min_ratio>>
  /\ UNCHANGED <<oldVars, respVars, gaussVars, lpcVars, histVars,
                 numVars>>

-----------------------------------------------------------------------------
(* make_lpc_cluster_client (condor/lpc.py)                                 *)

\* lpc.py 86: range(8787, 8787 + 100)
FirstPort == 8787
PortCount == 100

PortRange == FirstPort .. FirstPort + PortCount - 1

\* A proxy path that takes no notice of the directives given
ResolveProxy_AlwaysDefault(directives, HOME, getuid) ==
  HOME \o "/x509up_u" \o getuid

\* lpc.py 57-62: the caller's x509userproxy, else "{0}/x509up_u{1}" of $HOME
\* and the uid
ResolveProxy(directives, HOME, getuid) ==
  IF ~directives.has_x509userproxy
  THEN HOME \o "/x509up_u" \o getuid
  ELSE directives.x509userproxy

NoCluster == [made |-> FALSE, client |-> FALSE, scaled |-> 0]

\* The ports in use tried: the first k ports of the range, and with them
\* perhaps one more port further on
PortsInUseOpts ==
  {FirstPort .. FirstPort + k - 1 : k \in 0 .. PortCount}
  \cup {(FirstPort .. FirstPort + k - 1) \cup {FirstPort + k + 1} :
          k \in 0 .. PortCount - 2}

DirectivesOpts ==
  {[has_x509userproxy |-> FALSE, x509userproxy |-> ""],
   [has_x509userproxy |-> TRUE, x509userproxy |-> "/tmp/x509up_shared"]}

InitLpc ==
  /\ lpc_pc = "call"
  /\ ports_in_use \in PortsInUseOpts
  /\ job_extra_directives \in DirectivesOpts
  /\ home = "/home/user"
  /\ uid = "1000"
  /\ files \in SUBSET {"/home/user/x509up_u1000", "/tmp/x509up_shared"}
  /\ jobs \in {1, 4}
  /\ port_probes = <<>>
  /\ port = 0
  /\ proxyfile = ""
  /\ cluster = NoCluster
  /\ lerr = [exc |-> "none", names |-> ""]

IdleLpc ==
  /\ lpc_pc = "idle"
  /\ ports_in_use = {}
  /\ job_extra_directives = [has_x509userproxy |-> FALSE, x509userproxy |-> ""]
  /\ home = ""
  /\ uid = ""
  /\ files = {}
  /\ jobs = 0
  /\ port_probes = <<>>
  /\ port = 0
  /\ proxyfile = ""
  /\ cluster = NoCluster
  /\ lerr = [exc |-> "none", names |-> ""]

\* lpc.py 14-23: the defaults, up to the call of __get_port, which is made
\* whether or not scheduler_options was given
MakeLpcClusterClient ==
  /\ lpc_pc = "call"
  /\ lpc_pc' = "get_port"
  /\ UNCHANGED <<ports_in_use, job_extra_directives, home, uid, files, jobs,
                 port_probes, port, proxyfile, cluster, lerr>>
  /\ UNCHANGED <<oldVars, respVars, gaussVars, peakVars, histVars,
                 numVars>>

\* lpc.py 86-88: one turn of the loop of __get_port
ProbePort ==
  /\ lpc_pc = "get_port"
  /\ Len(port_probes) < PortCount
  /\ LET p == FirstPort + Len(port_probes) IN
     /\ port_probes' = Append(port_probes, p)
     /\ IF p \notin ports_in_use
        THEN port' = p /\ lpc_pc' = "set_default_proxy"
        ELSE UNCHANGED <<port, lpc_pc>>
  /\ UNCHANGED <<ports_in_use, job_extra_directives, home, uid, files, jobs,
                 proxyfile, cluster, lerr>>
  /\ UNCHANGED <<oldVars, respVars, gaussVars, peakVars, histVars,
                 numVars>>

\* lpc.py 90: raise RunTimeError(..), a name that is not defined
NoAvailablePort ==
  /\ lpc_pc = "get_port"
  /\ Len(port_probes) = PortCount
  /\ lpc_pc' = "raised"
  /\ lerr' = [exc |-> "NameError", names |-> "RunTimeError"]
  /\ UNCHANGED <<ports_in_use, job_extra_directives, home, uid, files, jobs,
                 port_probes, port, proxyfile, cluster>>
  /\ UNCHANGED <<oldVars, respVars, gaussVars, peakVars, histVars,
                 numVars>>

\* lpc.py 25-27, 53-74: set_default_proxy and the update of the directives
SetDefaultProxy ==
  /\ lpc_pc = "set_default_proxy"
  /\ proxyfile' = ResolveProxy(job_extra_directives, home, uid)
  /\ IF proxyfile' \notin files
     THEN /\ lpc_pc' = "raised"
          /\ lerr' = [exc |-> "FileNotFoundError", names |-> proxyfile']
          /\ UNCHANGED job_extra_directives
     ELSE /\ lpc_pc' = "transfer_input_files"
          /\ job_extra_directives' =
               [has_x509userproxy |-> TRUE, x509userproxy |-> proxyfile']
          /\ UNCHANGED lerr
  /\ UNCHANGED <<ports_in_use, home, uid, files, jobs, port_probes, port,
                 cluster>>
  /\ UNCHANGED <<oldVars, respVars, gaussVars, peakVars, histVars,
                 numVars>>

\* lpc.py 30-32: os.abspath is no attribute of os, so line 32 raises and the
\* cluster, the client and the scaling of lines 37-50 are never reached
TransferInputFiles ==
  /\ lpc_pc = "transfer_input_files"
  /\ lpc_pc' = "raised"
  /\ lerr' = [exc |-> "AttributeError", names |-> "abspath"]
  /\ UNCHANGED <<ports_in_use, job_extra_directives, home, uid, files, jobs,
                 port_probes, port, proxyfile, cluster>>
  /\ UNCHANGED <<oldVars, respVars, gaussVars, peakVars, histVars,
                 numVars>>

-----------------------------------------------------------------------------
(* from_waveform (formats/histogram_output.py)                             *)
(* The integrals are whole numbers of ADC counts; timeintervals and        *)
(* adc_val are whole numbers of an arbitrary unit, of either sign.         *)

RECURSIVE SumSlice(_, _, _)
\* histogram_output.py 22-23: the sum of row[lo:hi]
SumSlice(row, lo, hi) ==
  IF lo >= Min(hi, Len(row)) THEN 0
  ELSE row[lo + 1] + SumSlice(row, lo + 1, hi)

\* histogram_output.py 33: int(num / den), which drops the fraction
IntTrunc(num, den) ==
  IF (num < 0) # (den < 0)
  THEN 0 - (Abs(num) \div Abs(den))
  ELSE Abs(num) \div Abs(den)

SeqMin(x) == CHOOSE m \in Range(x) : \A v \in Range(x) : m <= v

\* hist.axis.Regular: the bin of the value v on an axis of n bins over
\* [lo, hi); n stands for the overflow
AxisIndex(v, n, lo, hi) ==
  IF v >= hi THEN n ELSE ((v - lo) * n) \div (hi - lo)

\* histogram_output.py 37: h.fill(area)
Fill(values, n, lo, hi) ==
  [counts |-> [b \in 1 .. n |->
                 Cardinality({k \in DOMAIN values :
                                AxisIndex(values[k], n, lo, hi) = b - 1})],
   overflow |-> Cardinality({k \in DOMAIN values :
                               AxisIndex(values[k], n, lo, hi) = n})]

NoHist == [made |-> FALSE, bins |-> 0, lo |-> 0, hi |-> 0,
           counts |-> <<>>, overflow |-> 0]

WaveformRows == {<<a, b>> : a \in {0, 1, 6}, b \in {0, 1, 6}}

InitHist ==
  /\ hpc = "call"
  /\ \E n \in 0 .. MaxEvents : h_waveforms \in [1 .. n -> WaveformRows]
  /\ start \in {0, 1}
  /\ stop \in {1, 2}
  /\ timeintervals \in {-1, 1, 2}
  /\ adc_val \in {-1, 1}
  /\ invert \in BOOLEAN
  /\ bin_group \in {2, 4}
  /\ area = <<>>
  /\ nbins = 0
  /\ hist_out = NoHist
  /\ herr = "none"

IdleHist ==
  /\ hpc = "idle"
  /\ h_waveforms = <<>>
  /\ start = 0
  /\ stop = 0
  /\ timeintervals = 0
  /\ adc_val = 0
  /\ invert = FALSE
  /\ bin_group = 0
  /\ area = <<>>
  /\ nbins = 0
  /\ hist_out = NoHist
  /\ herr = "none"

\* histogram_output.py 19-33: the integrals, their conversion and the number
\* of bins; the minimum of no events is None, which cannot be subtracted
FromWaveform ==
  /\ hpc = "call"
  /\ LET mult == IF invert THEN -1 ELSE 1
         converted == [k \in DOMAIN h_waveforms |->
                         SumSlice(h_waveforms[k], start, stop)
                           * timeintervals * adc_val * mult]
     IN /\ area' = converted
        /\ IF converted = <<>>
           THEN /\ hpc' = "raised"
                /\ herr' = "TypeError"
                /\ UNCHANGED nbins
           ELSE /\ hpc' = "axis"
                /\ nbins' = IntTrunc(SeqMax(converted) - SeqMin(converted),
                                     timeintervals * adc_val * bin_group)
                /\ UNCHANGED herr
  /\ UNCHANGED <<h_waveforms, start, stop, timeintervals, adc_val, invert,
                 bin_group, hist_out>>
  /\ UNCHANGED <<oldVars, respVars, gaussVars, peakVars, lpcVars,
                 numVars>>

\* histogram_output.py 36-39: the axis, the filling and the return.  An axis
\* of a negative number of bins or of no extent is refused; whether an axis
\* of no bins is refused depends on the version of the histogram library.
BuildHistogram ==
  /\ hpc = "axis"
  /\ LET amin == SeqMin(area)
         amax == SeqMax(area)
     IN \E zero_bins_allowed \in BOOLEAN :
          IF nbins < 0
          THEN /\ hpc' = "raised"
               /\ herr' = "TypeError"
               /\ UNCHANGED hist_out
          ELSE IF amin = amax \/ (nbins = 0 /\ ~zero_bins_allowed)
          THEN /\ hpc' = "raised"
               /\ herr' = "ValueError"
               /\ UNCHANGED hist_out
          ELSE /\ hpc' = "returned"
               /\ hist_out' =
                    LET filled == Fill(area, nbins, amin, amax)
                    IN [made |-> TRUE, bins |-> nbins, lo |-> amin,
                        hi |-> amax, counts |-> filled.counts,
                        overflow |-> filled.overflow]
               /\ UNCHANGED herr
  /\ UNCHANGED <<h_waveforms, start, stop, timeintervals, adc_val, invert,
                 bin_group, area, nbins>>
  /\ UNCHANGED <<oldVars, respVars, gaussVars, peakVars, lpcVars,
                 numVars>>

-----------------------------------------------------------------------------
(* number_str (plotting.py)                                                *)
(* The numbers are fixed point with Decimals decimals.  The floats tried    *)
(* are ones whose rounding to the digits printed is that of their decimal  *)
(* expansion: none of them lies half way between two numbers printed,      *)
(* where the binary expansion of the float would decide.                   *)

Decimals == 5

RECURSIVE DigitCount(_)
\* The number of decimal digits of n >= 1
DigitCount(n) == IF n < 10 THEN 1 ELSE 1 + DigitCount(n \div 10)

\* plotting.py 270-272: len(digits) + exponent - 1 of Decimal(number), the
\* exponent of the leading digit; 0 for the number 0
b10_exp_single(number) ==
  IF number = 0 THEN 0 ELSE DigitCount(Abs(number)) - 1 - Decimals

\* An uncertainty: a number, or a 2-tuple of numbers
Single(n) == [tuple |-> FALSE, a |-> n, b |-> n]
Pair(n, m) == [tuple |-> TRUE, a |-> n, b |-> m]

\* plotting.py 274-275, 279: np.max(b10_exp(*u)) of a tuple, b10_exp(u) else
UncExp(u) ==
  IF u.tuple THEN Max(b10_exp_single(u.a), b10_exp_single(u.b))
  ELSE b10_exp_single(u.a)

\* plotting.py 278-281: the largest exponent of the uncertainties
LargestUncExp(us) ==
  CHOOSE e \in {UncExp(us[k]) : k \in DOMAIN us} :
    \A k \in DOMAIN us : UncExp(us[k]) <= e

\* A precision that forgets the digit of the exponent itself
NDigit_NoLeadingDigit(unc_exp, sig) == Max((unc_exp - sig) * (0 - 1), 1)

\* plotting.py 282: np.max([(unc_exp - nsig + 1) * -1, 1])
NDigit(unc_exp, sig) == Max((unc_exp - sig + 1) * (0 - 1), 1)

\* num / den rounded to the nearest whole number, a half to the even one
RoundHalfEven(num, den) ==
  LET q == num \div den
      r == num % den
  IN IF 2 * r > den \/ (2 * r = den /\ q % 2 = 1) THEN q + 1 ELSE q

RECURSIVE DigitsOf(_, _)
\* The last k decimal digits of n
DigitsOf(n, k) ==
  IF k = 0 THEN "" ELSE DigitsOf(n \div 10, k - 1) \o ToString(n % 10)

\* plotting.py 283: "{:.<ndigit>f}".format(x)
FormatFixed(x, ndigit) ==
  LET q == IF ndigit <= Decimals
           THEN RoundHalfEven(Abs(x), Pow(10, Decimals - ndigit))
           ELSE Abs(x) * Pow(10, ndigit - Decimals)
  IN (IF x < 0 THEN "-" ELSE "")
       \o ToString(q \div Pow(10, ndigit)) \o "."
       \o DigitsOf(q % Pow(10, ndigit), ndigit)

Sign(x) == IF x < 0 THEN 0 - 1 ELSE IF x > 0 THEN 1 ELSE 0

\* plotting.py 285-296: tuple_str; of the product only the sign is kept
tuple_str(t, ndigit) ==
  LET prod == Sign(t.a) * Sign(t.b)
      hi == FormatFixed(Abs(Max(t.a, t.b)), ndigit)
      lo == FormatFixed(Abs(Min(t.a, t.b)), ndigit)
  IN IF prod < 0
     THEN "{}^{+" \o hi \o "}_{-" \o lo \o "}"
     ELSE IF Max(t.a, t.b) >= 0
     THEN "{}^{+" \o hi \o "}_{+" \o lo \o "}"
     ELSE "{}^{-" \o hi \o "}_{-" \o lo \o "}"

\* plotting.py 298-300: single_str
single_str(n, ndigit) == "\\pm" \o FormatFixed(n, ndigit)

\* plotting.py 302-307: the tokens
Tokens(cen, us, sig) ==
  LET ndigit == NDigit(LargestUncExp(us), sig)
  IN <<FormatFixed(cen, ndigit)>>
       \o [k \in DOMAIN us |->
             IF us[k].tuple THEN tuple_str(us[k], ndigit)
             ELSE single_str(us[k].a, ndigit)]

RECURSIVE JoinFrom(_, _, _)
\* sep.join(strs[k:])
JoinFrom(sep, strs, k) ==
  IF k > Len(strs) THEN ""
  ELSE IF k = Len(strs) THEN strs[k]
  ELSE strs[k] \o sep \o JoinFrom(sep, strs, k + 1)

\* plotting.py 309-312: the string of the tokens
Plain(toks, sep) ==
  IF sep # ""
  THEN JoinFrom(sep, [k \in DOMAIN toks |-> "$" \o toks[k] \o "$"], 1)
  ELSE "$" \o JoinFrom(sep, toks, 1) \o "$"

\* plotting.py 316-323: x / shift, with shift = 10 ** ex
ShiftNum(x, ex) ==
  IF ex >= 0 THEN x \div Pow(10, ex) ELSE x * Pow(10, 0 - ex)

ShiftUnc(u, ex) ==
  [tuple |-> u.tuple, a |-> ShiftNum(u.a, ex), b |-> ShiftNum(u.b, ex)]

\* plotting.py 277-333: what number_str gives, and the tokens it was made of
NumberStrOf(cen, us, sig, sep, sci) ==
  IF ~sci
  THEN [tokens |-> Tokens(cen, us, sig),
        str |-> Plain(Tokens(cen, us, sig), sep)]
  ELSE LET ex == b10_exp_single(cen)
           toks == Tokens(ShiftNum(cen, ex),
                          [k \in DOMAIN us |-> ShiftUnc(us[k], ex)], sig)
           s == Plain(toks, "")
       IN [tokens |-> toks,
           str |-> IF ex # 0
                   THEN "$(" \o SubSeq(s, 2, Len(s) - 1) \o ")\\times 10^{"
                          \o ToString(ex) \o "}$"
                   ELSE s]

CentralOpts == {314159, 0 - 50000, 1200000, 4600}

SingleOpts == {2000, 40000, 200000, 300}

PairOpts == {0 - 40000, 0, 30000, 0 - 2000}

UncOpts ==
  {Single(n) : n \in SingleOpts}
  \cup {Pair(n, m) : n \in PairOpts, m \in PairOpts}

InitNum ==
  /\ npc = "call"
  /\ central \in CentralOpts
  /\ \E n \in 1 .. MaxUncs : unc_args \in [1 .. n -> UncOpts]
  /\ nsig \in {1, 2, 3}
  /\ align_str \in {"", "&"}
  /\ scientific \in BOOLEAN
  /\ num_out = [tokens |-> <<>>, str |-> ""]

IdleNum ==
  /\ npc = "idle"
  /\ central = 0
  /\ unc_args = <<>>
  /\ nsig = 0
  /\ align_str = ""
  /\ scientific = FALSE
  /\ num_out = [tokens |-> <<>>, str |-> ""]

\* plotting.py 246-333: number_str
NumberStr ==
  /\ npc = "call"
  /\ npc' = "returned"
  /\ num_out' = NumberStrOf(central, unc_args, nsig, align_str, scientific)
  /\ UNCHANGED <<central, unc_args, nsig, align_str, scientific>>
  /\ UNCHANGED <<oldVars, respVars, gaussVars, peakVars, lpcVars, histVars>>

-----------------------------------------------------------------------------
(* The specifications *)

IdleOld == IdleFit /\ IdleSetBounds /\ IdleStd /\ IdleWave /\ IdleConv
IdleMore ==
  IdleResp /\ IdleGauss /\ IdlePeaks /\ IdleLpc /\ IdleHist /\ IdleNum

InitFitSpec ==
  InitFit /\ IdleSetBounds /\ IdleStd /\ IdleWave /\ IdleConv /\ IdleMore
NextFit == Validate \/ Minimize \/ FinalIteration \/ WidenRound
SpecFit == InitFitSpec /\ [][NextFit]_vars

InitSetBoundsSpec ==
  IdleFit /\ InitSetBounds /\ IdleStd /\ IdleWave /\ IdleConv /\ IdleMore
NextSetBounds == SetBounds
SpecSetBounds == InitSetBoundsSpec /\ [][NextSetBounds]_vars

InitStdSpec ==
  IdleFit /\ IdleSetBounds /\ InitStd /\ IdleWave /\ IdleConv /\ IdleMore
NextStd == StdFromTxtCall
SpecStd == InitStdSpec /\ [][NextStd]_vars

InitWaveSpec ==
  IdleFit /\ IdleSetBounds /\ IdleStd /\ InitWave /\ IdleConv /\ IdleMore
NextWave == WaveFromTxtCall
SpecWave == InitWaveSpec /\ [][NextWave]_vars

InitConvSpec ==
  IdleFit /\ IdleSetBounds /\ IdleStd /\ IdleWave /\ InitConv /\ IdleMore
NextConv == ConvertWaveformFile \/ ConvertLumiFile
SpecConv == InitConvSpec /\ [][NextConv]_vars

InitResponseSpec ==
  IdleOld /\ InitResp /\ IdleGauss /\ IdlePeaks /\ IdleLpc /\ IdleHist
  /\ IdleNum
NextResponse == CreateResponsePdfData \/ UpdateResponseParameterBounds
SpecResponse == InitResponseSpec /\ [][NextResponse]_vars

InitGaussSpec ==
  IdleOld /\ IdleResp /\ InitGauss /\ IdlePeaks /\ IdleLpc /\ IdleHist
  /\ IdleNum
NextGauss == EstimateGaussParam \/ FitPeak \/ ReturnGaussParam
SpecGauss == InitGaussSpec /\ [][NextGauss]_vars

InitPeaksSpec ==
  IdleOld /\ IdleResp /\ IdleGauss /\ InitPeaks /\ IdleLpc /\ IdleHist
  /\ IdleNum
NextPeaks == EstimatePeaks
SpecPeaks == InitPeaksSpec /\ [][NextPeaks]_vars

InitLpcSpec ==
  IdleOld /\ IdleResp /\ IdleGauss /\ IdlePeaks /\ InitLpc /\ IdleHist
  /\ IdleNum
NextLpc ==
  \/ MakeLpcClusterClient
  \/ ProbePort
  \/ NoAvailablePort
  \/ SetDefaultProxy
  \/ TransferInputFiles
SpecLpc == InitLpcSpec /\ [][NextLpc]_vars

InitHistSpec ==
  IdleOld /\ IdleResp /\ IdleGauss /\ IdlePeaks /\ IdleLpc /\ InitHist
  /\ IdleNum
NextHist ==
  \/ FromWaveform
  \/ BuildHistogram
SpecHist == InitHistSpec /\ [][NextHist]_vars

InitNumSpec ==
  IdleOld /\ IdleResp /\ IdleGauss /\ IdlePeaks /\ IdleLpc /\ IdleHist
  /\ InitNum
NextNum == NumberStr
SpecNum == InitNumSpec /\ [][NextNum]_vars

-----------------------------------------------------------------------------
(* Properties of run_iterative_pdf_fit                                     *)

\* A widening round has just ended: the loop goes on, or it stopped early.
RoundEnded ==
  /\ nfits >= 1
  /\ \/ fpc = "minimize"
     \/ fpc = "done" /\ i # max_iterations.val - 1

\* C1: a parameter with a configured hard limit that its working bound
\* respected on entry keeps upper_bound <= upper_max and lower_bound >=
\* lower_max after every round, whatever the fits returned.
C1_BoundsWithinHardLimits ==
  \A n \in Params :
    /\ (limits_entry[n].has_upper_max
        /\ limits_entry[n].upper_bound <= limits_entry[n].upper_max)
       => limits_dict[n].upper_bound <= limits_dict[n].upper_max
    /\ (limits_entry[n].has_lower_max
        /\ limits_entry[n].lower_bound >= limits_entry[n].lower_max)
       => limits_dict[n].lower_bound >= limits_dict[n].lower_max

\* C1 witness: after two rounds a bound that started below its hard limit has
\* been widened up to it.
C1_Witness ==
  \E n \in Params :
    /\ nfits >= 2
    /\ limits_entry[n].has_upper_max
    /\ limits_entry[n].upper_bound < limits_entry[n].upper_max
    /\ limits_dict[n].upper_bound = limits_dict[n].upper_max

\* C2 as claimed: in a round entered with a bound equal to its hard limit, a
\* parameter that is at a limit, its value within its bounds and its error band
\* reaching that bound, is recorded in at_logical_limit, keeps the bound, and
\* does not set run_fitting on account of that bound.
C2_AtHardLimitFlaggedNotRerun ==
  RoundEnded =>
    \A n \in Params :
      LET r == result[n]
          b == fit_bounds[n]
          e == limits_dict[n]
          inside == r.at_limit /\ r.error >= 0
                    /\ b.lower <= r.value /\ r.value <= b.upper
      IN /\ (inside /\ e.has_upper_max /\ b.upper = e.upper_max
             /\ b.upper - upper_error(r) <= Tol)
            => /\ n \in Range(at_logical_limit)
               /\ e.upper_bound = b.upper
               /\ <<n, "upper">> \notin trig
         /\ (inside /\ e.has_lower_max /\ b.lower = e.lower_max
             /\ lower_error(r) - b.lower <= Tol)
            => /\ n \in Range(at_logical_limit)
               /\ e.lower_bound = b.lower
               /\ <<n, "lower">> \notin trig

Terminated == fpc \in {"done", "raised"}

\* A measure of the work left: it is a natural number and every step of the
\* call makes it smaller, so the call takes finitely many steps.
FitVariant ==
  CASE fpc = "start" -> 2 * Max(max_iterations.val, 0) + 2
    [] fpc = "minimize" -> 2 * (max_iterations.val - nfits) + 1
    [] fpc = "check" -> 2 * (max_iterations.val - nfits) + 2
    [] OTHER -> 0

\* C3: at most max_iterations minimisations are run, none after a round in
\* which run_fitting stayed false, and the call ends: every step brings it
\* closer to its end, it never stops before its end, and it ends with an
\* exception or returning the result of at least one minimisation.
C3_IterationsBoundedAndTerminates ==
  /\ [](nfits >= 1 => nfits <= max_iterations.val)
  /\ [][(fpc = "check" /\ i # max_iterations.val - 1 /\ ~run_fitting')
          => fpc' = "done"]_vars
  /\ [][fpc = "done" => nfits' = nfits]_vars
  /\ [](FitVariant >= 0)
  /\ [][FitVariant' < FitVariant]_vars
  /\ [](Terminated \/ ENABLED NextFit)
  /\ [](fpc = "done" => nfits >= 1)

\* C3 witness: an early stop after a round that widened a bound, with
\* iterations to spare.
C3_Witness ==
  /\ fpc = "done"
  /\ ~run_fitting
  /\ nfits >= 2
  /\ nfits < max_iterations.val

BadFitInput ==
  \/ max_iterations.val <= 0
  \/ ~max_iterations.isint
  \/ \E n \in Params :
       \/ ~limits_entry[n].present
       \/ ~limits_entry[n].has_width
       \/ limits_entry[n].width <= 0
       \/ limits_entry[n].lower_bound > limits_entry[n].upper_bound

\* C7: an input with max_iterations <= 0 or not an integer, or with a parameter
\* that is missing from limits_dict, has no width, a width <= 0 or lower_bound >
\* upper_bound, is rejected with an error before any minimisation and before
\* any bound is modified.
C7_BadInputRejected ==
  (BadFitInput /\ fpc # "start")
    => /\ fpc = "raised"
       /\ ferr # NoError
       /\ nfits = 0
       /\ limits_dict = limits_entry

\* C7 witness: the call was rejected for the bounds of a parameter while
\* max_iterations was fine.
C7_Witness ==
  /\ fpc = "raised"
  /\ ferr.kind = "illogical bounds"
  /\ max_iterations.val >= 1

-----------------------------------------------------------------------------
(* Properties of set_bounds                                                *)

\* C4: for every variable of the point estimates, set_bounds sets lower_bound
\* to max(estimate - width, lower_max) when lower_max is configured and to
\* estimate - width otherwise, and upper_bound to min(estimate + width,
\* upper_max) when upper_max is configured and to estimate + width otherwise.
C4_SetBoundsValues ==
  sbpc = "returned" =>
    \A k \in Params :
      variable_estimates[k].present =>
        LET c == sb_config[k]
            est == variable_estimates[k].value
        IN /\ sb_limits[k].has_bounds
           /\ sb_limits[k].lower_bound =
                (IF c.has_lower_max THEN Max(est - c.width, c.lower_max)
                 ELSE est - c.width)
           /\ sb_limits[k].upper_bound =
                (IF c.has_upper_max THEN Min(est + c.width, c.upper_max)
                 ELSE est + c.width)

\* C4 witness: set_bounds returned after clipping an upper bound to upper_max
\* and leaving a lower bound at estimate - width although lower_max is
\* configured.
C4_Witness ==
  /\ sbpc = "returned"
  /\ \E k \in Params :
       /\ variable_estimates[k].present
       /\ sb_config[k].has_upper_max
       /\ variable_estimates[k].value + sb_config[k].width > sb_config[k].upper_max
       /\ sb_limits[k].upper_bound = sb_config[k].upper_max
  /\ \E k \in Params :
       /\ variable_estimates[k].present
       /\ sb_config[k].has_lower_max
       /\ sb_limits[k].lower_bound > sb_config[k].lower_max

\* C5 as claimed: every entry set_bounds computed has lower_bound <=
\* upper_bound, also for estimates outside [lower_max, upper_max].
C5_LowerNotAboveUpper ==
  sbpc = "returned" =>
    \A k \in Params :
      variable_estimates[k].present =>
        sb_limits[k].lower_bound <= sb_limits[k].upper_bound

\* The defects of the configuration of key k that set_bounds checks for.
SetBoundsDefect(k) ==
  \/ ~sb_config[k].present
  \/ ~sb_config[k].has_width
  \/ sb_config[k].width <= 0

\* C6: when a key of the point estimates is missing from limits_dict, has no
\* width or has a width <= 0, set_bounds raises an error that names such a
\* key and what is wrong with it, and returns nothing.
C6_SetBoundsRaises ==
  (sbpc \notin {"call", "idle"}
   /\ \E k \in Params : variable_estimates[k].present /\ SetBoundsDefect(k))
    => /\ sbpc = "raised"
       /\ sberr.key \in Params
       /\ variable_estimates[sberr.key].present
       /\ SetBoundsDefect(sberr.key)
       /\ sberr.kind = "not in limits_dict" <=> ~sb_config[sberr.key].present
       /\ sberr.kind = "width not set" =>
            sb_config[sberr.key].present /\ ~sb_config[sberr.key].has_width
       /\ sberr.kind = "width <= 0" =>
            sb_config[sberr.key].has_width /\ sb_config[sberr.key].width <= 0

\* C6 witness: set_bounds raised for the second key, which limits_dict does
\* not hold, after it had set the bounds of the first.
C6_Witness ==
  /\ sbpc = "raised"
  /\ sberr = [kind |-> "not in limits_dict", key |-> ParamOrder[2]]
  /\ sb_limits[ParamOrder[1]].has_bounds

-----------------------------------------------------------------------------
(* Properties of the conversion scripts                                    *)

\* The conversion of the k-th input file raises an exception.
FileFails(k) ==
  (IF script = "waveform" THEN ConvertWaveform(input[k])
   ELSE ConvertLumi(input[k])).exc # "none"

ProgressLines == SelectSeq(log, LAMBDA e : e.kind = "progress")

\* The indices, among the files gone through, of those that fails[k] does not
\* mark.
Converted(fails) == SelectSeq([k \in 1 .. cidx |-> k], LAMBDA k : ~fails[k])

\* C8: whichever input files fail to parse or to save, both scripts go through
\* the files once each and in order, print the 1-indexed progress line of
\* each, print the error of each failing file right after its progress line,
\* save every other file, let no exception out of the loop and do not stop
\* before the last file.
C8_BatchGoesOn ==
  script # "idle" =>
    LET fails == [k \in 1 .. cidx |-> FileFails(k)]
        progress == ProgressLines
        converted == Converted(fails)
    IN /\ ~propagated
       /\ cidx = Len(input) \/ ENABLED NextConv
       /\ Len(progress) = cidx
       /\ \A k \in 1 .. cidx :
            /\ progress[k].path = input[k].path
            /\ progress[k].idx = k
            /\ progress[k].total = Len(input)
       /\ \A p \in DOMAIN log :
            /\ log[p].kind = "error" =>
                 p > 1 /\ log[p - 1].kind = "progress" /\ fails[log[p - 1].idx]
            /\ (log[p].kind = "progress" /\ fails[log[p].idx]) =>
                 p < Len(log) /\ log[p + 1].kind = "error"
       /\ Len(saved) = Len(converted)
       /\ \A j \in DOMAIN saved :
            saved[j].path = Replace(input[converted[j]].path, TxtExt, RootExt)

\* C8 witness: of three files the second failed and the first and the third
\* were saved.
C8_Witness ==
  /\ script # "idle"
  /\ Len(input) = 3
  /\ cidx = 3
  /\ FileFails(2)
  /\ ~FileFails(1)
  /\ ~FileFails(3)
  /\ Len(saved) = 2
  /\ Len(log) = 4

-----------------------------------------------------------------------------
(* Properties of standard_container.from_txt                               *)

\* C9 as claimed, for a file whose rows all have n numbers: n = 5 gives the
\* fields time, det_id, led_bv, led_temp and sipm_temp zero, gantry_x/y/z the
\* columns 0 to 2 and a payload n - 3 wide; n >= 9 gives the eight fields from
\* the columns 0 to 7 and a payload n - 8 wide; any other n raises the format
\* error that names the file and gives no container.
C9_ColumnDispatch ==
  (stdpc \in {"returned", "raised"} /\ Len(std_file) >= 1
   /\ \A r \in DOMAIN std_file : Len(std_file[r]) = Len(std_file[1]))
    => LET n == Len(std_file[1])
           d == std_out.data
       IN /\ n = 5 =>
               /\ stdpc = "returned"
               /\ Len(d) = Len(std_file)
               /\ \A r \in DOMAIN d :
                    /\ d[r].time = 0 /\ d[r].det_id = 0 /\ d[r].led_bv = 0
                    /\ d[r].led_temp = 0 /\ d[r].sipm_temp = 0
                    /\ d[r].gantry_x = std_file[r][1]
                    /\ d[r].gantry_y = std_file[r][2]
                    /\ d[r].gantry_z = std_file[r][3]
                    /\ Len(d[r].payload) = n - 3
          /\ n >= 9 =>
               /\ stdpc = "returned"
               /\ Len(d) = Len(std_file)
               /\ \A r \in DOMAIN d :
                    /\ d[r].time = std_file[r][1]
                    /\ d[r].det_id = std_file[r][2]
                    /\ d[r].gantry_x = std_file[r][3]
                    /\ d[r].gantry_y = std_file[r][4]
                    /\ d[r].gantry_z = std_file[r][5]
                    /\ d[r].led_bv = std_file[r][6]
                    /\ d[r].led_temp = std_file[r][7]
                    /\ d[r].sipm_temp = std_file[r][8]
                    /\ Len(d[r].payload) = n - 8
          /\ (n # 5 /\ n < 9) =>
               /\ stdpc = "raised"
               /\ std_out.exc = "RuntimeError"
               /\ std_out.names_file
               /\ d = NoData

-----------------------------------------------------------------------------
(* Properties of waveform_container.from_txt                               *)

IsNumber(tok) == tok.kind \in {"int", "dec"}

\* C10: a settings line of 5 numbers gives time_interval = token[0],
\* trigger_delay = 0, adc_to_voltage = token[4] * 256, adc_bit_width = 2 and
\* invert = true; one of 3 numbers, the second an integer, gives time_interval
\* = token[2], trigger_delay = 0, adc_to_voltage = token[0], adc_bit_width =
\* int(token[1]) and invert = true; a line of any other number of tokens raises
\* a format error that names the file, before settings are built or an event
\* line is decoded. A container is returned for no other line.
C10_SettingsDispatch ==
  wpc \in {"returned", "raised"} =>
    LET sl == wave_file.settings_line
        o == wave_out
    IN /\ (Len(sl) = 5 /\ IsNumber(sl[1]) /\ IsNumber(sl[5])) =>
            /\ wpc = "returned"
            /\ o.settings = [timeintervals |-> sl[1].val, triggerdelay |-> 0,
                             adc_val |-> sl[5].val * 256, adc_bits |-> 2,
                             invert |-> TRUE]
       /\ (Len(sl) = 3 /\ IsNumber(sl[1]) /\ IsNumber(sl[3])
           /\ sl[2].kind = "int") =>
            /\ o.has_settings
            /\ o.settings = [timeintervals |-> sl[3].val, triggerdelay |-> 0,
                             adc_val |-> sl[1].val,
                             adc_bits |-> sl[2].val \div 10, invert |-> TRUE]
            /\ sl[2].val \in {20, 40} => wpc = "returned"
       /\ Len(sl) \notin {3, 5} =>
            /\ wpc = "raised"
            /\ o.exc = "RuntimeError"
            /\ o.names_file
            /\ ~o.has_settings
            /\ o.decoded = 0
            /\ o.waveforms = <<>>
       /\ wpc = "returned" => Len(sl) \in {3, 5} /\ o.has_settings

\* C10 witness: a container read from a file in the new format, the sample
\* width 4, the time interval other than the conversion factor, and an event
\* decoded.
C10_Witness ==
  /\ wpc = "returned"
  /\ Len(wave_file.settings_line) = 3
  /\ wave_out.settings.adc_bits = 4
  /\ wave_out.settings.timeintervals # wave_out.settings.adc_val
  /\ wave_out.decoded >= 1

-----------------------------------------------------------------------------
(* Properties of convert_line                                              *)

\* The unsigned number written by the hex digits a .. b of line.
RECURSIVE ChunkUnsigned(_, _, _)
ChunkUnsigned(line, a, b) ==
  IF b < a THEN 0 ELSE 16 * ChunkUnsigned(line, a, b - 1) + line[b]

\* The number of chunks of w digits of a line of len digits, the last one
\* shorter when w does not divide len.
ChunkCount(len, w) == (len + w - 1) \div w

\* C11: for adc_bits w in {2, 4}, every event line is cut from the left into
\* chunks of w hex digits, the decoded event has one sample per chunk in chunk
\* order, and the sample of a chunk of unsigned value v is v when v <
\* 2^(4w - 1) and v - 2^(4w) otherwise.
C11_TwosComplementSamples ==
  wpc = "returned" =>
    LET w == wave_out.settings.adc_bits
        half == IF w = 2 THEN 128 ELSE 32768
    IN /\ w \in {2, 4}
       /\ Len(wave_out.waveforms) = Len(wave_file.events)
       /\ \A k \in DOMAIN wave_file.events :
            LET line == wave_file.events[k]
                samples == wave_out.waveforms[k]
            IN /\ Len(samples) = ChunkCount(Len(line), w)
               /\ \A j \in DOMAIN samples :
                    LET v == ChunkUnsigned(line, (j - 1) * w + 1,
                                           Min(j * w, Len(line)))
                    IN samples[j] = IF v < half THEN v ELSE v - 2 * half

\* C11 witness: an event of two samples of four hex digits, the first decoded
\* as a positive and the second as a negative number.
C11_Witness ==
  /\ wpc = "returned"
  /\ wave_out.settings.adc_bits = 4
  /\ Len(wave_out.waveforms) = 1
  /\ wave_out.waveforms[1] = <<32767, -32768>>

-----------------------------------------------------------------------------
(* Properties of create_response_pdf_data and                              *)
(* update_response_parameter_bounds                                        *)

AllPresent == \A var \in ResponseVars : parameters[var].kind # "absent"

IsScalar(e) == e.kind \in {"float", "float64", "int"}

\* The entry is a scalar or a tuple of one, two or three numbers.
AcceptedShape(e) == IsScalar(e) \/ (e.kind = "tuple" /\ Len(e.v) \in {1, 2, 3})

\* C12 as claimed: with the ten names present, create_response_pdf_data makes
\* for each of them the parameter named variable name + routine_name that is
\* fixed for a scalar or a 1-tuple, floating within [c - |r|, c + |r|] for a
\* 2-tuple (c, r) and floating within [lo, up] for a 3-tuple (c, lo, up); an
\* entry of any other shape raises the configuration error.
C12_ShapeDispatch ==
  (resp_out.op = "create" /\ AllPresent) =>
    IF \A var \in ResponseVars : AcceptedShape(parameters[var])
    THEN /\ rpc = "created"
         /\ Len(resp_out.params) = Len(__response_var_list__)
         /\ \A k \in DOMAIN resp_out.params :
              LET var == __response_var_list__[k]
                  e == parameters[var]
                  p == resp_out.params[k]
              IN /\ p.name = var \o routine_name
                 /\ (IsScalar(e) \/ Len(e.v) = 1) => ~p.floating
                 /\ (e.kind = "tuple" /\ Len(e.v) = 2) =>
                      /\ p.floating
                      /\ p.lower = e.v[1] - Abs(e.v[2])
                      /\ p.upper = e.v[1] + Abs(e.v[2])
                 /\ (e.kind = "tuple" /\ Len(e.v) = 3) =>
                      p.floating /\ p.lower = e.v[2] /\ p.upper = e.v[3]
    ELSE rpc = "raised" /\ resp_out.exc = "ValueError"

\* The first of the ten names that the parameters dictionary lacks.
FirstMissing ==
  __response_var_list__[
    CHOOSE k \in DOMAIN __response_var_list__ :
      /\ parameters[__response_var_list__[k]].kind = "absent"
      /\ \A j \in 1 .. k - 1 :
           parameters[__response_var_list__[j]].kind # "absent"]

\* C13: when one of the ten names is missing from the parameters dictionary,
\* create_response_pdf_data and update_response_parameter_bounds raise, build
\* no response model and return no dictionary; the error is the assertion
\* that names the missing variable unless an entry before it is rejected
\* first.
C13_MissingNameIsFatal ==
  (rpc \in {"created", "updated", "raised"} /\ ~AllPresent) =>
    /\ rpc = "raised"
    /\ ~resp_out.pdf
    /\ resp_out.dict = <<>>
    /\ resp_out.exc = "AssertionError" => resp_out.var = FirstMissing
    /\ (\A var \in ResponseVars : parameters[var].kind \in {"float", "absent"})
         => resp_out.exc = "AssertionError"

\* C13 witness: create_response_pdf_data stopped at the last name, which is
\* missing, after making the nine parameters before it.
C13_Witness ==
  /\ rpc = "raised"
  /\ resp_out.op = "create"
  /\ resp_out.exc = "AssertionError"
  /\ resp_out.var = "dc_res"
  /\ parameters["dc_res"].kind = "absent"
  /\ Len(resp_out.params) = 9

\* The variable was floated in the fit: minuit has the parameter that
\* create_response_pdf_data names after it.
Floated(var) == \E k \in DOMAIN minuit : minuit[k].name = var \o routine_name

FittedParam(var) ==
  minuit[CHOOSE k \in DOMAIN minuit : minuit[k].name = var \o routine_name]

\* C14 as claimed: for entries that are floats or tuples of one, two or three
\* numbers, update_response_parameter_bounds returns for each of the ten
\* variables (center, center - unc, center + unc), center the fitted value and
\* unc fit_uncer_range times the fitted error when the variable was floated,
\* center the central value of the entry and unc relative_range times it
\* otherwise.
C14_UpdatedEntries ==
  (resp_out.op = "update"
   /\ \A var \in ResponseVars :
        LET e == parameters[var]
        IN AcceptedShape(e) /\ e.kind # "int")
    => /\ rpc = "updated"
       /\ Len(resp_out.dict) = Len(__response_var_list__)
       /\ \A k \in DOMAIN resp_out.dict :
            LET var == __response_var_list__[k]
                center == IF Floated(var) THEN FittedParam(var).value
                          ELSE parameters[var].v[1]
                unc == IF Floated(var)
                       THEN (fit_uncer_range * FittedParam(var).error) \div 10
                       ELSE (relative_range * center) \div 10
            IN resp_out.dict[k] =
                 [cen |-> center, lo |-> center - unc, up |-> center + unc]

-----------------------------------------------------------------------------
(* Properties of estimate_gauss_param                                      *)

RecordOf(f) == [peak_id |-> f.peak_id, mu |-> f.x0, sigma |-> f.sig,
                norm |-> f.norm]

\* C16: the records kept are those of the peaks whose fit gave
\* (x0 - peak_center) < 5 * bin_width and sigma < 10 * bin_width, one record
\* per such peak and in the order of the peaks; a peak that fails a test
\* leaves no record, raises nothing and the loop goes on to the next peak, so
\* that the call returns with every peak gone through.
C16_AcceptancePolicy ==
  LET kept == SelectSeq(fits, LAMBDA f :
                /\ f.x0 - f.peak_cen < 5 * g_bin_width
                /\ f.sig < 10 * g_bin_width)
  IN /\ Len(return_dict) = Len(kept)
     /\ \A k \in DOMAIN return_dict :
          /\ return_dict[k].peak_id = kept[k].peak_id
          /\ return_dict[k].mu = kept[k].x0
          /\ return_dict[k].sigma = kept[k].sig
          /\ return_dict[k].norm = kept[k].norm
          /\ Len(return_dict[k].xrange) = 2
     /\ \A k \in 1 .. Len(return_dict) - 1 :
          return_dict[k].peak_id < return_dict[k + 1].peak_id
     /\ gpc \in {"loop", "returned"} => Len(fits) = gidx
     /\ gpc = "raised" => gerr # "none" /\ Len(fits) = gidx
     /\ gpc = "returned" => gidx = Len(peak_positions)

\* C16 witness: of two peaks the first was dropped for a sigma of exactly
\* 10 * bin_width and the second was kept.
C16_Witness ==
  /\ gpc = "returned"
  /\ Len(fits) = 2
  /\ fits[1].sig = 10 * g_bin_width
  /\ fits[1].x0 - fits[1].peak_cen < 5 * g_bin_width
  /\ Len(return_dict) = 1
  /\ return_dict[1].peak_id = 1

-----------------------------------------------------------------------------
(* Properties of estimate_peaks                                            *)

\* The bins, counted from 1, that hold the largest entry of the histogram
TopBins == {j \in DOMAIN h_data : h_data[j] = SeqMax(h_data)}

\* The histogram has two peaks of equal height: its largest entry is in two
\* bins, neither the first nor the last, each above both its neighbours.
TwoEqualPeaks ==
  /\ Cardinality(TopBins) = 2
  /\ \A j \in TopBins :
       /\ 1 < j /\ j < Len(h_data)
       /\ h_data[j - 1] < h_data[j]
       /\ h_data[j + 1] < h_data[j]

\* The centre of the bin j, counted from 1
CenterOf(j) == (j - 1) * p_bin_width + p_bin_width \div 2

\* C17: of two equal-height peaks whose bin centres are exactly min_gain
\* apart estimate_peaks returns both, of two that are min_gain - 1 apart it
\* returns one; the positions returned are bin centres in ascending order.
C17_MinGainSeparation ==
  ppc = "returned" =>
    /\ \A k \in DOMAIN peaks_out :
         \E j \in DOMAIN h_data : peaks_out[k] = CenterOf(j)
    /\ \A k \in 1 .. Len(peaks_out) - 1 : peaks_out[k] < peaks_out[k + 1]
    /\ TwoEqualPeaks =>
         LET lo == CHOOSE j \in TopBins : \A u \in TopBins : j <= u
             hi == CHOOSE j \in TopBins : \A u \in TopBins : u <= j
             found == {j \in TopBins : CenterOf(j) \in Range(peaks_out)}
         IN /\ CenterOf(hi) - CenterOf(lo) = min_gain => found = TopBins
            /\ CenterOf(hi) - CenterOf(lo) = min_gain - One
                 => Cardinality(found) = 1

\* C17 witness: bins one unit wide, min_gain of 3, two equal peaks two bins
\* apart, and one position returned.
C17_Witness ==
  /\ ppc = "returned"
  /\ TwoEqualPeaks
  /\ p_bin_width = One
  /\ min_gain = 3 * One
  /\ \E j \in TopBins : j + 2 \in TopBins
  /\ Len(peaks_out) = 1

\* The second C17 witness: bins half a unit wide, min_gain of 2, two equal
\* peaks four bins apart, and both positions returned.
C17_WitnessBoth ==
  /\ ppc = "returned"
  /\ TwoEqualPeaks
  /\ 2 * p_bin_width = One
  /\ min_gain = 2 * One
  /\ \E j \in TopBins : j + 4 \in TopBins
  /\ Len(peaks_out) = 2

\* The ports of the range that are free
FreePorts == PortRange \ ports_in_use

\* C18: __get_port returns the smallest port of 8787..8886 that is not in
\* use, having tried the ports in ascending order up to that one and no
\* further; with all 100 ports in use it raises a resource-exhaustion error
\* (a RuntimeError) and returns no port.
C18_SmallestFreePort ==
  lpc_pc \notin {"idle", "call", "get_port"} =>
    IF FreePorts # {}
    THEN /\ port \in FreePorts
         /\ \A q \in FreePorts : port <= q
         /\ port_probes = [k \in 1 .. port - FirstPort + 1 |->
                             FirstPort + k - 1]
    ELSE /\ port = 0
         /\ lpc_pc = "raised"
         /\ lerr.exc = "RuntimeError"

\* The proxy file of the directives as they stand
ExpectedProxy ==
  IF job_extra_directives.has_x509userproxy
  THEN job_extra_directives.x509userproxy
  ELSE home \o "/x509up_u" \o uid

\* C19: make_lpc_cluster_client takes the x509userproxy of the caller as it
\* is, and $HOME/x509up_u<uid> when there is none; a proxy file that does not
\* exist makes it raise, with no cluster made, no client made and no worker
\* scaled, and a cluster is only ever made after the proxy file was found.
C19_ProxyBeforeCluster ==
  /\ [](/\ cluster.made => proxyfile \in files
        /\ (lpc_pc = "raised" /\ ExpectedProxy \notin files) =>
             /\ lerr.exc \in {"FileNotFoundError", "NameError"}
             /\ cluster = NoCluster)
  /\ [][lpc_pc = "set_default_proxy" =>
          /\ proxyfile' = ExpectedProxy
          /\ IF ExpectedProxy \in files
             THEN /\ lpc_pc' # "raised"
                  /\ job_extra_directives'.x509userproxy = ExpectedProxy
             ELSE /\ lpc_pc' = "raised"
                  /\ lerr' = [exc |-> "FileNotFoundError",
                              names |-> ExpectedProxy]
                  /\ cluster' = NoCluster]_vars

\* C19 witness: the caller's proxy file is missing while the default one is
\* there, and the call has raised naming the caller's file.
C19_Witness ==
  /\ lpc_pc = "raised"
  /\ lerr = [exc |-> "FileNotFoundError", names |-> "/tmp/x509up_shared"]
  /\ "/home/user/x509up_u1000" \in files
  /\ port_probes # <<>>
  /\ cluster = NoCluster

\* The second C19 witness: no proxy given, the default one there, and the
\* directives updated with it.
C19_WitnessDefault ==
  /\ lpc_pc = "transfer_input_files"
  /\ proxyfile = "/home/user/x509up_u1000"
  /\ job_extra_directives.x509userproxy = proxyfile
  /\ "/tmp/x509up_shared" \in files

\* floor(num / den)
FloorDiv(num, den) ==
  IF den > 0 THEN num \div den ELSE (0 - num) \div (0 - den)

\* floor((max - min) / time_interval / adc_to_voltage / bin_group)
FloorBins ==
  FloorDiv(SeqMax(area) - SeqMin(area), timeintervals * adc_val * bin_group)

DecimalsOf(str) ==
  Len(str) - (CHOOSE k \in 1 .. Len(str) : SubSeq(str, k, k) = ".")

\* The call number_str(3.14159, 0.02), every other argument at its default,
\* has returned
ExampleCall ==
  /\ npc = "returned"
  /\ central = 314159
  /\ unc_args = <<Single(2000)>>
  /\ nsig = 2
  /\ align_str = ""
  /\ ~scientific

\* C21 as stated: number_str(3.14159, 0.02) with the default nsig = 2
\* renders as $3.14\pm0.02$, the central value and the uncertainty having the
\* same number of decimals, 2 for an uncertainty of exponent -2.
C21_TwoDecimals ==
  ExampleCall =>
    /\ num_out.str = "$3.14\\pm0.02$"
    /\ DecimalsOf(num_out.tokens[1]) = 2
    /\ DecimalsOf(num_out.tokens[2]) = 2

\* C21 as amended: number_str(3.14159, 0.02) with the default nsig = 2
\* renders as $3.142\pm0.020$; without the scientific notation the central
\* value and every symmetric uncertainty are printed with the same number of
\* decimals, max(1, nsig - 1 - e) for e the largest exponent of the
\* uncertainties, which is 3 for an exponent of -2 and nsig = 2.
C21_SameDecimals ==
  /\ ExampleCall => num_out.str = "$3.142\\pm0.020$"
  /\ (npc = "returned" /\ ~scientific) =>
       LET expected == Max(1, nsig - 1 - LargestUncExp(unc_args))
       IN /\ DecimalsOf(num_out.tokens[1]) = expected
          /\ \A k \in DOMAIN unc_args :
               ~unc_args[k].tuple =>
                 DecimalsOf(num_out.tokens[k + 1]) = expected

\* C21 witness: the call of the example has returned, with three decimals.
C21_Witness ==
  /\ ExampleCall
  /\ DecimalsOf(num_out.tokens[1]) = 3
  /\ DecimalsOf(num_out.tokens[2]) = 3

\* The signs that may stand in front of the component x
SignChars(x) ==
  IF x < 0 THEN {"-"} ELSE IF x > 0 THEN {"+"} ELSE {"+", "-"}

\* C26: for an asymmetric uncertainty (a, b) number_str prints |max(a, b)|
\* as superscript and |min(a, b)| as subscript, each behind the sign of the
\* component it prints, for every pair, a zero component included.
C26_SignOfEachComponent ==
  (npc = "returned" /\ ~scientific) =>
    \A k \in DOMAIN unc_args :
      unc_args[k].tuple =>
        LET hi == Max(unc_args[k].a, unc_args[k].b)
            lo == Min(unc_args[k].a, unc_args[k].b)
            ndigit == NDigit(LargestUncExp(unc_args), nsig)
        IN \E up \in SignChars(hi), down \in SignChars(lo) :
             num_out.tokens[k + 1] =
               "{}^{" \o up \o FormatFixed(Abs(hi), ndigit)
                 \o "}_{" \o down \o FormatFixed(Abs(lo), ndigit) \o "}"

\* A round of checks that is not the last allowed iteration is being taken
InRound == fpc = "check" /\ i # max_iterations.val - 1

\* C22: a bound of an at-limit parameter whose error band (value + error for
\* the upper bound, value - error for the lower bound) lies further than 1e-4
\* (10 units) inside that bound is left unchanged by the round.
C22_WidenOnlyWithinTolerance ==
  [][InRound =>
       \A n \in Params :
         result[n].at_limit =>
           /\ limits_dict[n].upper_bound - upper_error(result[n]) > 10
                => limits_dict'[n].upper_bound = limits_dict[n].upper_bound
           /\ lower_error(result[n]) - limits_dict[n].lower_bound > 10
                => limits_dict'[n].lower_bound = limits_dict[n].lower_bound]_vars

\* The last allowed iteration has been reached, with message = true
FinalWithMessage ==
  /\ fpc = "done"
  /\ i = max_iterations.val - 1
  /\ message

\* The parameters at a limit in the last fit
AtLimit == {n \in Params : result[n].at_limit}

\* C23 as stated: with message = true, at the last allowed iteration the
\* at_logical_limit list is empty, and every parameter at a limit in the
\* final fit is reported as not converged.
C23_EmptyListAtFinal ==
  FinalWithMessage =>
    /\ at_logical_limit = <<>>
    /\ Range(printed.not_converged) = AtLimit

\* C23 as amended: with message = true, at the last allowed iteration the
\* at_logical_limit list is the one the round before left (empty when there
\* was no round before), and the parameters reported as not converged are
\* those at a limit in the final fit that this list does not hold.
C23_ListOfPreviousRound ==
  /\ [](FinalWithMessage =>
          /\ Range(printed.not_converged) = AtLimit \ Range(at_logical_limit)
          /\ max_iterations.val = 1 => at_logical_limit = <<>>)
  /\ [][(fpc = "check" /\ fpc' = "done" /\ i = max_iterations.val - 1) =>
          at_logical_limit' = at_logical_limit]_vars
  /\ [][fpc = "minimize" => at_logical_limit' = at_logical_limit]_vars

\* C23 witness: the last allowed iteration is reached with a parameter at a
\* limit that the round before flagged, and it is not reported.
C23_Witness ==
  /\ FinalWithMessage
  /\ \E n \in AtLimit :
       /\ n \in Range(at_logical_limit)
       /\ n \notin Range(printed.not_converged)
  /\ \E n \in AtLimit : n \in Range(printed.not_converged)

\* A bound of the parameter n stands on its hard limit
OnHardLimit(n) ==
  \/ limits_dict[n].has_upper_max
       /\ limits_dict[n].upper_bound = limits_dict[n].upper_max
  \/ limits_dict[n].has_lower_max
       /\ limits_dict[n].lower_bound = limits_dict[n].lower_max

\* C24: a round adds a parameter to at_logical_limit only when the working
\* bound of the side that flags it stands on the hard limit of that side:
\* upper_bound = upper_max or lower_bound = lower_max.
C24_FlaggedOnlyOnHardLimit ==
  [][InRound =>
       \A n \in Params :
         n \in Range(at_logical_limit') => OnHardLimit(n)]_vars

\* The checks have passed and the fit is under way or over
FitStarted == fpc \in {"minimize", "check", "done"}

\* C25: lower_bound <= upper_bound holds for every parameter after every
\* round of a fit that started with it, the fitted values lying within the
\* bounds and the Hessian errors being >= 0.
C25_LowerNotAboveUpperInFit ==
  FitStarted =>
    \A n \in Params :
      limits_dict[n].lower_bound <= limits_dict[n].upper_bound

\* C25 witness: a round has pulled an upper bound down to its hard limit and
\* pushed the lower bound of the same parameter out.
C25_Witness ==
  /\ FitStarted
  /\ nfits >= 1
  /\ \E n \in Params :
       /\ limits_dict[n].upper_bound < limits_entry[n].upper_bound
       /\ limits_dict[n].lower_bound < limits_entry[n].lower_bound
       /\ limits_dict[n].lower_bound <= limits_dict[n].upper_bound

\* C27: when run_iterative_pdf_fit returns, the bounds of limits_dict are the
\* bounds the returned result was minimised under.
C27_BoundsOfReturnedFit ==
  fpc = "done" => Bounds(limits_dict) = fit_bounds

\* C27 witness: a return by early stop after bounds were widened.
C27_Witness ==
  /\ fpc = "done"
  /\ i # max_iterations.val - 1
  /\ nfits >= 2
  /\ Bounds(limits_dict) # Bounds(limits_entry)
  /\ Bounds(limits_dict) = fit_bounds

\* The fit stopped before the last allowed iteration
EarlyStop == fpc = "done" /\ i # max_iterations.val - 1

\* C28: after an early stop every parameter at a limit in the returned fit,
\* its value on a bound and its Hessian error >= 0, is in at_logical_limit.
C28_EarlyStopFlagsAtLimit ==
  EarlyStop =>
    \A n \in Params :
      (/\ result[n].at_limit
       /\ result[n].error >= 0
       /\ result[n].value \in {limits_dict[n].upper_bound,
                               limits_dict[n].lower_bound})
        => n \in Range(at_logical_limit)

\* C28 witness: an early stop with a parameter on its upper bound, flagged.
C28_Witness ==
  /\ EarlyStop
  /\ \E n \in Params :
       /\ result[n].at_limit
       /\ result[n].value = limits_dict[n].upper_bound
       /\ n \in Range(at_logical_limit)

\* C29: each triple (center, lower, upper) update_response_parameter_bounds
\* returns has lower <= center <= upper, whatever the mix of fixed and
\* floated variables and the signs of their central values.
C29_OrderedTriples ==
  rpc = "updated" =>
    \A k \in DOMAIN resp_out.dict :
      /\ resp_out.dict[k].lo <= resp_out.dict[k].cen
      /\ resp_out.dict[k].cen <= resp_out.dict[k].up

\* C30: the path a conversion script writes for an input file differs from
\* the path of that input file, so no conversion overwrites its own input.
C30_OutputIsNotInput ==
  [][(script \in {"waveform", "lumi"} /\ cidx < Len(input)) =>
       \A k \in DOMAIN saved' :
         k > Len(saved) => saved'[k].path # input[cidx + 1].path]_vars

====
